---- MODULE Spec2Model ----
(***************************************************************************)
(* A model of the scheduled publish pipeline of news-bot: the two feed     *)
(* readers (beincrypto_com, decrypt_co), the rewrite retry loop, the       *)
(* scheduler's job table, the persisted last_published.json and the job    *)
(* publish_news_job that wires them together.                              *)
(*                                                                         *)
(* Time is counted in whole hours.  A datetime is a record                 *)
(*   [t, us, tz]: t the instant in hours, us = 1 when the value carries a  *)
(*   non-zero fraction of a second (so it is later than [t, 0]), tz the    *)
(*   UTC offset it was built with or "naive".                              *)
(* A date string is a record [fmt, t, us, tz]: the text of a date in one   *)
(*   of the layouts the program meets (RFC 822 as in RSS pubDate, ISO 8601 *)
(*   as written by datetime.isoformat, junk, or an absent field).          *)
(***************************************************************************)
EXTENDS Integers, Sequences, FiniteSets, TLC

VARIABLES reader, rewriter, sched, store, last_published_file, clock, feeds, app_settings, publish_job,
          publisher

(***************************************************************************)
(* Strings and datetimes                                                   *)
(***************************************************************************)

\* str.lower() on the names the model uses
lower(s) ==
    CASE s = "Gaming" -> "gaming"
      [] s = "GAMING" -> "gaming"
      [] s = "Coins" -> "coins"
      [] s = "Decrypt_Co" -> "decrypt_co"
      [] OTHER -> s

\* Python's None where a datetime is expected
None == [t |-> 0, us |-> 0, tz |-> "None"]

\* a datetime-valued expression that raised instead of returning
Raised(exc) == [t |-> 0, us |-> 0, tz |-> exc]

IsDatetime(d) == d.tz \in {"naive", "+00:00", "+03:00"}

IsAware(d) == d.tz \in {"+00:00", "+03:00"}

\* an absent date field / missing element text
Absent == [fmt |-> "absent", t |-> 0, us |-> 0, tz |-> "naive"]

\* a < b on two aware datetimes: instants are compared, offsets are not
dt_lt(a, b) == a.t < b.t \/ (a.t = b.t /\ a.us < b.us)

\* a == b on two aware datetimes
dt_eq(a, b) == a.t = b.t /\ a.us = b.us

\* a <= b on two aware datetimes
dt_le(a, b) == a.t < b.t \/ (a.t = b.t /\ a.us <= b.us)

\* timedelta(days = n), in hours
timedelta(days) == days * 24

\* datetime.now(timezone.utc) at clock reading now
utcnow(now) == [t |-> now, us |-> 0, tz |-> "+00:00"]

\* d - timedelta: the offset and the fraction are kept
dt_minus(d, hours) == [d EXCEPT !.t = d.t - hours]

(***************************************************************************)
(* Feed entries as the parsers see them                                    *)
(***************************************************************************)

\* one feed entry: link, the date fields <<published, updated, created>>
\* (an RSS item's pubDate is the first), the category / tag texts, and
\* whether it carries a media thumbnail
Entry(link, dates, cats, media) ==
    [link |-> link, dates |-> dates, cats |-> cats, media |-> media]

\* value of a feed fetch that failed (HTTP error, malformed XML, bozo feed)
FetchFailed == <<Entry("FetchFailed", <<Absent, Absent, Absent>>, {}, FALSE)>>

NewsItem(link, published_at, category, img_link) ==
    [link |-> link, published_at |-> published_at,
     category |-> category, img_link |-> img_link]

\* sorted(news, key = published_at, reverse = True): stable, so of two items
\* with equal keys the one that came first stays first
RECURSIVE sorted_desc(_)
sorted_desc(news) ==
    IF news = <<>> THEN <<>>
    ELSE LET n == Len(news)
             best == CHOOSE i \in 1..n :
                        /\ \A j \in 1..n : dt_le(news[j].published_at, news[i].published_at)
                        /\ \A j \in 1..(i - 1) : dt_lt(news[j].published_at, news[i].published_at)
             rest == [k \in 1..(n - 1) |-> IF k < best THEN news[k] ELSE news[k + 1]]
         IN <<news[best]>> \o sorted_desc(rest)

\* seq[:count]
take(seq, count) == IF Len(seq) <= count THEN seq ELSE SubSeq(seq, 1, count)

(***************************************************************************)
(* beincrypto_com adapter                                                  *)
(***************************************************************************)

\* parse_date: strptime with "%a, %d %b %Y %H:%M:%S %z"; on ValueError the
\* naive local datetime.now() is returned
parse_date(date_str, now) ==
    IF date_str.fmt = "rfc822" /\ date_str.tz # "naive"
    THEN [t |-> date_str.t, us |-> 0, tz |-> date_str.tz]
    ELSE [t |-> now, us |-> 1, tz |-> "naive"]

\* a mutant: the watermark comparison is strict
bein_is_too_old_strict(pub_date, prev_published, now) ==
    IF ~IsAware(pub_date) THEN "TypeError"
    ELSE IF dt_lt(pub_date, dt_minus(utcnow(now), timedelta(1))) THEN "True"
    ELSE IF prev_published # None
         THEN (IF dt_lt(pub_date, prev_published) THEN "True" ELSE "False")
         ELSE "False"

\* _is_too_old(pub_date, prev_published, timedelta_days = 1): "True", "False",
\* or "TypeError" when a naive pub_date meets the aware threshold
bein_is_too_old(pub_date, prev_published, now) ==
    IF ~IsAware(pub_date) THEN "TypeError"
    ELSE IF dt_lt(pub_date, dt_minus(utcnow(now), timedelta(1))) THEN "True"
    ELSE IF prev_published # None
         THEN (IF dt_le(pub_date, prev_published) THEN "True" ELSE "False")
         ELSE "False"

\* parse_rss_feed's FeedItem: pub_date parsed, categories lowercased
FeedItem(entry, now) ==
    [link |-> entry.link,
     pub_date |-> parse_date(entry.dates[1], now),
     categories |-> {lower(c) : c \in entry.cats},
     media_url |-> entry.media]

\* a mutant: every entry passes the category filter
has_category_any(target_category, categories) == TRUE

\* "target_category in categories", the category filter of both adapters
has_category(target_category, categories) == target_category \in categories

bein_create_news_item(item, category) ==
    NewsItem(item.link, item.pub_date, category, item.media_url)

\* the loop "for entry in feed.items" from entry i on; an exception ends the
\* loop and leaves what was collected
RECURSIVE bein_loop(_, _, _, _, _, _)
bein_loop(feed, i, target_category, prev_published, now, category_news) ==
    IF i > Len(feed) THEN category_news
    ELSE LET entry == FeedItem(feed[i], now)
             old == bein_is_too_old(entry.pub_date, prev_published, now)
         IN  IF old = "TypeError" THEN category_news
             ELSE IF old = "True"
                  THEN bein_loop(feed, i + 1, target_category, prev_published, now, category_news)
             ELSE IF target_category # "" /\ ~has_category(target_category, entry.categories)
                  THEN bein_loop(feed, i + 1, target_category, prev_published, now, category_news)
             ELSE bein_loop(feed, i + 1, target_category, prev_published, now,
                            Append(category_news, bein_create_news_item(entry, target_category)))

\* FeedReader.get_latest_news_by_category of sources/beincrypto_com
bein_get_latest_news_by_category(feed, target_category, max_news_count, prev_published, now) ==
    IF feed = FetchFailed THEN <<>>
    ELSE take(sorted_desc(bein_loop(feed, 1, lower(target_category), prev_published, now, <<>>)),
              max_news_count)

(***************************************************************************)
(* decrypt_co adapter                                                      *)
(***************************************************************************)

\* dateutil's parser.parse on one date field, a naive result taken as UTC;
\* junk raises ValueError
dateutil_parse(date_str) ==
    IF date_str.fmt \in {"rfc822", "iso"}
    THEN [t |-> date_str.t, us |-> date_str.us,
          tz |-> IF date_str.tz = "naive" THEN "+00:00" ELSE date_str.tz]
    ELSE Raised("ValueError")

\* _parse_publication_date: published, then updated, then created; when none
\* parses the fallback dt.now(...) is an AttributeError (dt is the module)
RECURSIVE parse_publication_date_from(_, _)
parse_publication_date_from(entry, k) ==
    IF k > 3 THEN Raised("AttributeError")
    ELSE IF entry.dates[k] # Absent /\ IsDatetime(dateutil_parse(entry.dates[k]))
         THEN dateutil_parse(entry.dates[k])
         ELSE parse_publication_date_from(entry, k + 1)

decrypt_parse_publication_date(entry) == parse_publication_date_from(entry, 1)

\* a mutant: the staleness window is not applied
decrypt_is_too_old_no_window(pub_date, prev_published, now) ==
    IF prev_published # None THEN dt_le(pub_date, prev_published)
    ELSE FALSE

\* _is_too_old(pub_date, prev_published, timedelta_days = 1)
decrypt_is_too_old(pub_date, prev_published, now) ==
    IF dt_lt(pub_date, dt_minus(utcnow(now), timedelta(1))) THEN TRUE
    ELSE IF prev_published # None THEN dt_le(pub_date, prev_published)
    ELSE FALSE

\* _extract_categories
decrypt_extract_categories(entry) == {lower(c) : c \in entry.cats}

decrypt_create_news_item(entry, pub_date, category) ==
    NewsItem(entry.link, pub_date, category, entry.media)

RECURSIVE decrypt_loop(_, _, _, _, _, _)
decrypt_loop(feed, i, target_category, prev_published, now, category_news) ==
    IF i > Len(feed) THEN category_news
    ELSE LET pub_date == decrypt_parse_publication_date(feed[i])
         IN  IF ~IsDatetime(pub_date) THEN category_news
             ELSE IF decrypt_is_too_old(pub_date, prev_published, now)
                  THEN decrypt_loop(feed, i + 1, target_category, prev_published, now, category_news)
             ELSE IF target_category # ""
                     /\ ~has_category(lower(target_category),
                                      decrypt_extract_categories(feed[i]))
                  THEN decrypt_loop(feed, i + 1, target_category, prev_published, now, category_news)
             ELSE decrypt_loop(feed, i + 1, target_category, prev_published, now,
                               Append(category_news,
                                      decrypt_create_news_item(feed[i], pub_date, target_category)))

\* FeedReader.get_latest_news_by_category of sources/decrypt_co
decrypt_get_latest_news_by_category(feed, target_category, max_news_count, prev_published, now) ==
    IF feed = FetchFailed THEN <<>>
    ELSE take(sorted_desc(decrypt_loop(feed, 1, target_category, prev_published, now, <<>>)),
              max_news_count)

\* SOURCE_READERS[source]["reader"].get_latest_news_by_category(...)
get_latest_news_by_category(source, feed, target_category, max_news_count, prev_published, now) ==
    IF source = "beincrypto_com"
    THEN bein_get_latest_news_by_category(feed, target_category, max_news_count, prev_published, now)
    ELSE decrypt_get_latest_news_by_category(feed, target_category, max_news_count, prev_published, now)

(***************************************************************************)
(* Rewrite engine (news_rewriter.py).  A text is a sequence of characters. *)
(***************************************************************************)

\* "\n#quests_news", the footer of format_news
bottom_text == <<"\n", "#", "q", "u", "e", "s", "t", "s", "_", "n", "e", "w", "s">>

\* str.upper() of one character; "ESZETT" stands for the sharp s, whose
\* upper case is two letters
upper_char(c) ==
    CASE c = "a" -> <<"A">>
      [] c = "b" -> <<"B">>
      [] c = "t" -> <<"T">>
      [] c = "u" -> <<"U">>
      [] c = "ESZETT" -> <<"S", "S">>
      [] OTHER -> <<c>>

\* str.upper()
RECURSIVE upper(_)
upper(text) ==
    IF text = <<>> THEN <<>> ELSE upper_char(Head(text)) \o upper(Tail(text))

\* text[a..b] holds no line break, which "." of the pattern does not match
NoNewline(text, a, b) == \A x \in a..b : text[x] # "\n"

\* whether the pattern \[(.*?)\]\((.*?)\) matches at i with "]" at j, ")" at k
LinkAt(text, i, j, k) ==
    /\ text[i] = "["
    /\ i < j /\ j + 1 < k /\ k <= Len(text)
    /\ text[j] = "]" /\ text[j + 1] = "(" /\ text[k] = ")"
    /\ NoNewline(text, i + 1, j - 1)
    /\ NoNewline(text, j + 2, k - 1)

HasLinkAt(text, i) ==
    \E j \in 1..Len(text), k \in 1..Len(text) : LinkAt(text, i, j, k)

\* the lazy groups: the nearest "](" that can still be closed, then the
\* nearest ")"
LinkClose(text, i) ==
    LET j == CHOOSE j \in 1..Len(text) :
                /\ \E k \in 1..Len(text) : LinkAt(text, i, j, k)
                /\ \A j2 \in 1..(j - 1) : ~\E k \in 1..Len(text) : LinkAt(text, i, j2, k)
        k == CHOOSE k \in 1..Len(text) :
                /\ LinkAt(text, i, j, k)
                /\ \A k2 \in 1..(k - 1) : ~LinkAt(text, i, j, k2)
    IN <<j, k>>

Slice(text, a, b) == IF a > b THEN <<>> ELSE SubSeq(text, a, b)

\* replace_link: <a href="url">text</a>
replace_link(text, url) ==
    <<"<", "a", " ", "h", "r", "e", "f", "=", "\"">> \o url \o <<"\"", ">">>
        \o text \o <<"<", "/", "a", ">">>

\* re.sub over the text from position i on: leftmost matches, not overlapping
RECURSIVE convert_from(_, _)
convert_from(text, i) ==
    IF i > Len(text) THEN <<>>
    ELSE IF HasLinkAt(text, i)
         THEN LET jk == LinkClose(text, i)
              IN replace_link(Slice(text, i + 1, jk[1] - 1), Slice(text, jk[1] + 2, jk[2] - 1))
                   \o convert_from(text, jk[2] + 1)
         ELSE <<text[i]>> \o convert_from(text, i + 1)

convert_md_links_to_html(text) == convert_from(text, 1)

\* a mutant: the post is assembled without the footer
format_news_no_footer(news_text, news_title) ==
    <<"<", "b", ">">> \o upper(news_title) \o <<"<", "/", "b", ">", "\n", "\n">>
        \o convert_md_links_to_html(news_text)

\* format_news: <b>TITLE</b>, a blank line, the body, a line break, the footer
format_news(news_text, news_title) ==
    <<"<", "b", ">">> \o upper(news_title) \o <<"<", "/", "b", ">", "\n", "\n">>
        \o convert_md_links_to_html(news_text) \o <<"\n">> \o bottom_text

\* what the generation backend answers to one request: a text, or an error
GenError == <<"GenError">>

\* create_title: the backend's caption without surrounding double quotes; ""
\* when the request fails
create_title(answer) ==
    IF answer = GenError THEN <<>>
    ELSE IF answer # <<>> /\ Head(answer) = "\"" /\ answer[Len(answer)] = "\""
         THEN Slice(answer, 2, Len(answer) - 1)
         ELSE answer

\* rewrite_news_from_url on one pair of backend answers (body, title)
rewrite_news_from_url(out) == format_news(out.body, create_title(out.title))

RewriteResult(status, news, attempts, original, rewrited, length) ==
    [status |-> status, news |-> news, attempts |-> attempts,
     original_news |-> original, rewrited_news |-> rewrited,
     rewrited_news_length |-> length]

\* a mutant: the raw body is measured, not the formatted post
rewrite_fits_raw(out, max_news_text_len) == Len(out.body) <= max_news_text_len

\* len(news) <= max_news_text_len on the formatted text of one attempt
rewrite_fits(out, max_news_text_len) ==
    Len(rewrite_news_from_url(out)) <= max_news_text_len

\* a mutant: one attempt too many
rewrite_range_plus_one(max_rewriting_tries) == 1..(max_rewriting_tries + 1)

\* range(max_rewriting_tries), counted from 1
rewrite_range(max_rewriting_tries) == 1..max_rewriting_tries

\* rewrite_news from attempt k on; gen[k] is what the backend answers to the
\* k-th attempt, news the text of the attempt before
RECURSIVE rewrite_loop(_, _, _, _, _, _)
rewrite_loop(gen, k, news_url, max_news_text_len, max_rewriting_tries, news) ==
    IF k \notin rewrite_range(max_rewriting_tries)
    THEN IF k = 1
         THEN RewriteResult("UnboundLocalError", <<>>, 0, <<>>, <<>>, 0)
         ELSE RewriteResult("RewritedNewsIsTooLongError", <<>>, k - 1,
                            <<"from ", news_url>>, news, Len(news))
    ELSE IF gen[k].body = GenError
         THEN RewriteResult("Exception", <<>>, k, <<>>, <<>>, 0)
    ELSE IF rewrite_fits(gen[k], max_news_text_len)
         THEN RewriteResult("returned", rewrite_news_from_url(gen[k]), k, <<>>, <<>>, 0)
    ELSE rewrite_loop(gen, k + 1, news_url, max_news_text_len, max_rewriting_tries,
                      rewrite_news_from_url(gen[k]))

\* a mutant: after a text that fits, one more attempt is made when tries
\* are left, and its text is the one returned
rewrite_news_tries_again(gen, news_url, max_news_text_len, max_rewriting_tries) ==
    LET res == rewrite_loop(gen, 1, news_url, max_news_text_len, max_rewriting_tries, <<>>)
    IN IF /\ res.status = "returned"
          /\ res.attempts < max_rewriting_tries
          /\ gen[res.attempts + 1].body # GenError
       THEN [res EXCEPT !.attempts = res.attempts + 1,
                        !.news = rewrite_news_from_url(gen[res.attempts + 1])]
       ELSE res

\* a mutant: after an exception of the backend the next attempt is made
rewrite_news_retries(gen, news_url, max_news_text_len, max_rewriting_tries) ==
    LET res == rewrite_loop(gen, 1, news_url, max_news_text_len, max_rewriting_tries, <<>>)
    IN IF res.status = "Exception" /\ res.attempts < max_rewriting_tries
       THEN rewrite_loop(gen, res.attempts + 1, news_url, max_news_text_len,
                         max_rewriting_tries, <<"e">>)
       ELSE res

\* NewsRewriter.rewrite_news
rewrite_news(gen, news_url, max_news_text_len, max_rewriting_tries) ==
    rewrite_loop(gen, 1, news_url, max_news_text_len, max_rewriting_tries, <<>>)

(***************************************************************************)
(* Scheduler (scheduler.py).  The job table is the list that               *)
(* AsyncIOScheduler.get_jobs() returns: the pending jobs while the         *)
(* scheduler is stopped, the job store's jobs while it runs.               *)
(***************************************************************************)

\* a job as add_job stores it: the id, the hour and the minute of its cron
\* trigger, the kwargs of its run, and next_run_time, the time of its next
\* run, the days counted from the registration
Job(id, hours, minutes, kwargs) ==
    [id |-> id, hours |-> hours, minutes |-> minutes, kwargs |-> kwargs,
     next_run_time |-> [day |-> 1, hours |-> hours, minutes |-> minutes]]

\* scheduler.get_job(job_id) is not None
has_job(jobs, job_id) == \E i \in 1..Len(jobs) : jobs[i].id = job_id

\* scheduler.remove_job(job_id)
remove_job(jobs, job_id) == SelectSeq(jobs, LAMBDA j : j.id # job_id)

\* the calls into the scheduling library that schedule_job makes, each of
\* which may raise
LibraryCalls == {"get_job", "remove_job", "CronTrigger", "add_job"}

\* the library calls that raise during one call of schedule_job: none, one
\* or several of them.  The scheduler with its memory store raises in none
\* of them for a time of day that passed the check; the sets other than {}
\* are there for the except clauses of schedule_job and
\* _remove_job_if_exists, which say what the code does when a call raises
SchedFails == SUBSET LibraryCalls

\* a mutant: the existing job is left in place
remove_job_if_exists_noop(jobs, job_id, fail) == jobs

\* SchedulerManager._remove_job_if_exists: an exception of get_job or of
\* remove_job is logged and swallowed, and the job stays in the table
remove_job_if_exists(jobs, job_id, fail) ==
    IF "get_job" \in fail THEN jobs
    ELSE IF has_job(jobs, job_id) /\ "remove_job" \notin fail THEN remove_job(jobs, job_id)
    ELSE jobs

\* scheduler.add_job(..., replace_existing=True): a stopped scheduler appends
\* to its pending jobs; a running one replaces the stored job of the same id
add_job(jobs, running, job) ==
    IF running /\ has_job(jobs, job.id)
    THEN [i \in 1..Len(jobs) |-> IF jobs[i].id = job.id THEN job ELSE jobs[i]]
    ELSE Append(jobs, job)

\* a mutant: the jobs stay in the table
remove_all_jobs_keeps(jobs, remove_ok) == [jobs |-> jobs, result |-> "None"]

\* SchedulerManager.remove_all_jobs: scheduler.remove_all_jobs() empties
\* the table, or it raises, the exception is logged and raised again and
\* the table is as it was
remove_all_jobs(jobs, remove_ok) ==
    IF remove_ok THEN [jobs |-> <<>>, result |-> "None"]
    ELSE [jobs |-> jobs, result |-> "raised"]

\* a mutant: the trigger ends with its first fire time
cron_one_shot(hours, minutes, previous_fire_time) == None

\* the next fire time of the trigger schedule_job builds, CronTrigger(hour,
\* minute) with every other field left open and no end date: the same time
\* of day one day after the previous fire time
cron_next_fire_time(hours, minutes, previous_fire_time) ==
    [day |-> previous_fire_time.day + 1, hours |-> hours, minutes |-> minutes]

\* a mutant: a job that raised is taken from the table
job_error_listener_removes(jobs, i, outcome) ==
    IF outcome = "raised" THEN remove_job(jobs, jobs[i].id) ELSE jobs

\* _job_error_listener, registered for the events of a run that raised or
\* was missed: it logs the event and returns, the table left as it is
job_error_listener(jobs, i, outcome) == jobs

\* the job table after the trigger of jobs[i] fired and the run succeeded,
\* raised or was missed.  The scheduler loop is the library's: it hands the
\* run to the executor, asks the job's trigger for the next fire time, keeps
\* the job with that time when there is one and removes the job when there
\* is none; the outcome of the run reaches the listeners only
fire_job(jobs, i, outcome) ==
    LET job == jobs[i]
        next_fire_time == cron_next_fire_time(job.hours, job.minutes, job.next_run_time)
        kept == IF next_fire_time = None THEN remove_job(jobs, job.id)
                ELSE [jobs EXCEPT ![i].next_run_time = next_fire_time]
    IN IF outcome \in {"raised", "missed"} /\ has_job(kept, job.id)
       THEN job_error_listener(kept, i, outcome)
       ELSE kept

\* a mutant: no time check
valid_time_any(hours, minutes) == TRUE

\* the time check of schedule_job
valid_time(hours, minutes) == 0 <= hours /\ hours <= 23 /\ 0 <= minutes /\ minutes <= 59

\* SchedulerManager.schedule_job: ValueError for a time out of range, before
\* the table is touched; otherwise the job of that id is removed, the
\* trigger built and the job added, and an exception of the trigger or of
\* add_job is logged and answered by False, after the removal
schedule_job(jobs, running, job_id, hours, minutes, kwargs, fail) ==
    LET removed == remove_job_if_exists(jobs, job_id, fail)
    IN IF ~valid_time(hours, minutes) THEN [jobs |-> jobs, result |-> "ValueError"]
       ELSE IF fail \cap {"CronTrigger", "add_job"} # {}
       THEN [jobs |-> removed, result |-> "False"]
       ELSE [jobs |-> add_job(removed, running, Job(job_id, hours, minutes, kwargs)),
             result |-> "True"]

\* the calls of SchedulerManager.shutdown into the library that may raise
ShutdownFails == {{}, {"remove_all_jobs"}, {"shutdown"}}

\* SchedulerManager.shutdown: a stopped scheduler is left alone; on a
\* running one remove_all_jobs and then scheduler.shutdown are called, and
\* an exception of either is logged and raised again, the scheduler still
\* running
shutdown(jobs, running, fail) ==
    IF ~running THEN [jobs |-> jobs, running |-> FALSE, result |-> "None"]
    ELSE IF "remove_all_jobs" \in fail
    THEN [jobs |-> remove_all_jobs(jobs, FALSE).jobs, running |-> TRUE, result |-> "raised"]
    ELSE IF "shutdown" \in fail
    THEN [jobs |-> remove_all_jobs(jobs, TRUE).jobs, running |-> TRUE, result |-> "raised"]
    ELSE [jobs |-> remove_all_jobs(jobs, TRUE).jobs, running |-> FALSE, result |-> "None"]

\* scheduler.start(): the pending jobs enter the job store one by one, each
\* replacing a stored job of its id
RECURSIVE start_jobs(_, _)
start_jobs(pending, stored) ==
    IF pending = <<>> THEN stored
    ELSE start_jobs(Tail(pending), add_job(stored, TRUE, Head(pending)))

(***************************************************************************)
(* Schedule loading (main.py, run_publisher).  Names and time strings are  *)
(* sequences of one-character strings over letters, digits, "_", ":",      *)
(* "+", "-" and the blank.                                                 *)
(***************************************************************************)

Digits == <<"0", "1", "2", "3", "4", "5", "6", "7", "8", "9">>

IsDigit(c) == \E d \in 1..10 : Digits[d] = c

digit_value(c) == (CHOOSE d \in 1..10 : Digits[d] = c) - 1

\* str.split(sep) for a one-character separator, from the part begun in cur
RECURSIVE split_from(_, _, _)
split_from(text, sep, cur) ==
    IF text = <<>> THEN <<cur>>
    ELSE IF Head(text) = sep THEN <<cur>> \o split_from(Tail(text), sep, <<>>)
    ELSE split_from(Tail(text), sep, Append(cur, Head(text)))

split(text, sep) == split_from(text, sep, <<>>)

\* the value of decimal digits, underscores between them skipped
RECURSIVE digits_value(_, _)
digits_value(text, acc) ==
    IF text = <<>> THEN acc
    ELSE IF Head(text) = "_" THEN digits_value(Tail(text), acc)
    ELSE digits_value(Tail(text), 10 * acc + digit_value(Head(text)))

\* text without the blanks around it
strip(text) ==
    LET inked == {i \in 1..Len(text) : text[i] # " "}
    IN IF inked = {} THEN <<>>
       ELSE SubSeq(text, CHOOSE i \in inked : \A k \in inked : i <= k,
                         CHOOSE i \in inked : \A k \in inked : k <= i)

\* the digit part of an integer literal: digits, with single underscores
\* between two of them
IsDecimal(body) ==
    /\ body # <<>>
    /\ IsDigit(body[1]) /\ IsDigit(body[Len(body)])
    /\ \A i \in 1..Len(body) : IsDigit(body[i]) \/ body[i] = "_"
    /\ \A i \in 1..(Len(body) - 1) : ~(body[i] = "_" /\ body[i + 1] = "_")

\* int(text): blanks around the text are dropped; an optional sign and the
\* digit part, else ValueError
py_int(str) ==
    LET text == strip(str)
        signed == text # <<>> /\ Head(text) \in {"+", "-"}
        body == IF signed THEN Tail(text) ELSE text
    IN IF ~IsDecimal(body)
       THEN [ok |-> FALSE, value |-> 0]
       ELSE [ok |-> TRUE,
             value |-> IF signed /\ Head(text) = "-" THEN 0 - digits_value(body, 0)
                       ELSE digits_value(body, 0)]

\* str(n) of an int, as an f-string formats {hours} and {minutes}
RECURSIVE nat_str(_)
nat_str(n) ==
    IF n < 10 THEN <<Digits[n + 1]>> ELSE Append(nat_str(n \div 10), Digits[(n % 10) + 1])

int_str(n) == IF n < 0 THEN <<"-">> \o nat_str(0 - n) ELSE nat_str(n)

\* hours, minutes = map(int, time_str.split(':')): ValueError unless there
\* are exactly two parts and int() takes both
parse_time(time_str) ==
    LET parts == split(time_str, ":")
    IN IF Len(parts) = 2 /\ py_int(parts[1]).ok /\ py_int(parts[2]).ok
       THEN [ok |-> TRUE, hours |-> py_int(parts[1]).value, minutes |-> py_int(parts[2]).value]
       ELSE [ok |-> FALSE, hours |-> 0, minutes |-> 0]

\* f"publish_news_{item['source']}_{item['category']}_{hours}_{minutes}"
job_id_of(source, category, hours, minutes) ==
    <<"p", "u", "b", "l", "i", "s", "h", "_", "n", "e", "w", "s", "_">>
        \o source \o <<"_">> \o category \o <<"_">> \o int_str(hours)
        \o <<"_">> \o int_str(minutes)

\* one pass of the body of the schedule loop over the job table: the pair
\* is scheduled, or the ValueError of the time string or of schedule_job's
\* time check is logged and the loop goes on; the answer of schedule_job is
\* not looked at, so a call that failed has left its own log line only
load_pair(jobs, running, source, category, time_str, fail) ==
    LET time == parse_time(time_str)
        res == schedule_job(jobs, running,
                            job_id_of(source, category, time.hours, time.minutes),
                            time.hours, time.minutes,
                            [source |-> source, category |-> category], fail)
    IN IF ~time.ok \/ res.result = "ValueError"
       THEN [jobs |-> jobs, log |-> "Invalid time format in schedule"]
       ELSE [jobs |-> res.jobs,
             log |-> IF res.result = "True" THEN "scheduled" ELSE "Failed to schedule job"]

(***************************************************************************)
(* Publish state store (main.py).  A state is a JSON object of objects,    *)
(* source -> category -> date string; the file holds its text.             *)
(***************************************************************************)

\* {} of Python / JSON
EmptyDoc == [source \in {} |-> [category \in {} |-> Absent]]

\* prev_published.get(source, {}).get(category); Absent stands for None
doc_get(doc, source, category) ==
    IF source \in DOMAIN doc
    THEN (IF category \in DOMAIN doc[source] THEN doc[source][category] ELSE Absent)
    ELSE Absent

\* prev_published[source][category] = value, the source's object made first
\* when it is missing
doc_set(doc, source, category, value) ==
    LET inner == IF source \in DOMAIN doc THEN doc[source]
                 ELSE [c \in {} |-> Absent]
        inner2 == [c \in (DOMAIN inner) \cup {category} |->
                      IF c = category THEN value ELSE inner[c]]
    IN [s \in (DOMAIN doc) \cup {source} |-> IF s = source THEN inner2 ELSE doc[s]]

\* datetime.isoformat(): fraction and offset are written when present
isoformat(d) == [fmt |-> "iso", t |-> d.t, us |-> d.us, tz |-> d.tz]

\* datetime.strptime(s, "%Y-%m-%dT%H:%M:%S%z"): no fraction allowed, the
\* offset required
strptime_watermark(date_str) ==
    IF date_str.fmt = "iso" /\ date_str.us = 0 /\ date_str.tz # "naive"
    THEN [t |-> date_str.t, us |-> 0, tz |-> date_str.tz]
    ELSE Raised("ValueError")

\* json.dumps(prev_published), the text write_text puts into the file
json_dumps(doc) == [kind |-> "json", doc |-> doc]

\* a file whose text is not JSON
CorruptFile == [kind |-> "corrupt", doc |-> EmptyDoc]

\* no file at the path
MissingFile == [kind |-> "missing", doc |-> EmptyDoc]

\* the start of run_publisher: '{}' is written when the file does not
\* exist, an existing file is left as it is
bootstrap(file) == IF file.kind = "missing" THEN json_dumps(EmptyDoc) ELSE file

\* a mutant: a file that cannot be parsed yields an old watermark
load_last_published_stale(file) ==
    IF file.kind = "json" THEN file.doc
    ELSE LET old == [fmt |-> "iso", t |-> 40, us |-> 0, tz |-> "+00:00"]
         IN doc_set(doc_set(EmptyDoc, "beincrypto_com", "coins", old),
                    "decrypt_co", "Gaming", old)

\* load_last_published: the parsed file, {} when reading or parsing fails
load_last_published(file) == IF file.kind = "json" THEN file.doc ELSE EmptyDoc

\* update_published_dates, the in-memory state after it
updated_doc(prev_published, source, category, pub_date) ==
    doc_set(prev_published, lower(source), lower(category), isoformat(pub_date))

\* how a write of last_published.json ends: the text is written; opening
\* the file for writing fails and the file stays as it was; the file is
\* opened, which truncates it, and writing the text fails
WriteOutcomes == {"written", "open_fails", "write_fails"}

\* the file after one write of the text of doc
written_file(file, doc, write) ==
    IF write = "written" THEN json_dumps(doc)
    ELSE IF write = "write_fails" THEN CorruptFile
    ELSE file

\* update_published_dates, the file after it; an exception of write_text is
\* logged
updated_file(file, prev_published, source, category, pub_date, write) ==
    written_file(file, updated_doc(prev_published, source, category, pub_date), write)

(***************************************************************************)
(* core/parse_news_feed.py: the reader over several categories.  Its       *)
(* prev_published is a flat object, category -> ISO date string.           *)
(***************************************************************************)

\* _parse_publication_date: published, then updated, then created through
\* dateutil, a naive result taken as UTC; when none parses, the current time
core_parse_publication_date(entry, now) ==
    IF IsDatetime(decrypt_parse_publication_date(entry))
    THEN decrypt_parse_publication_date(entry)
    ELSE utcnow(now)

\* _is_already_published: prev_published.get(category) >= published.isoformat()
\* for one of the categories, a comparison of two strings: the wall-clock
\* text first, then "." of a fraction against "+" of the offset, then
\* the offset
core_is_already_published(published, prev_published, categories) ==
    LET hours(tz) == IF tz = "+03:00" THEN 3 ELSE 0
        str_ge(a, b) ==
            \/ a.t + hours(a.tz) > b.t + hours(b.tz)
            \/ /\ a.t + hours(a.tz) = b.t + hours(b.tz)
               /\ \/ a.us > b.us
                  \/ a.us = b.us /\ hours(a.tz) >= hours(b.tz)
    IN \E category \in categories :
          /\ category \in DOMAIN prev_published
          /\ str_ge(prev_published[category], isoformat(published))

\* the loop "for entry in feed.entries" from entry i on, for one target
\* category; state is prev_published as mutated so far, the number of
\* calls of _update_published_dates and the file they have left; writes[n]
\* is how the n-th of these calls ends (an IOError is logged)
RECURSIVE core_loop(_, _, _, _, _, _)
core_loop(feed, i, target_category, now, writes, state) ==
    IF i > Len(feed) THEN state
    ELSE LET pub_date == core_parse_publication_date(feed[i], now)
             matching_categories ==
                 {lower(target_category)} \cap {lower(c) : c \in feed[i].cats}
         IN  IF \/ dt_lt(pub_date, dt_minus(utcnow(now), timedelta(1)))
                \/ matching_categories = {}
                \/ core_is_already_published(pub_date, state.prev_published,
                                             matching_categories)
             THEN core_loop(feed, i + 1, target_category, now, writes, state)
             ELSE LET doc == [c \in (DOMAIN state.prev_published) \cup matching_categories |->
                                IF c \in matching_categories THEN isoformat(pub_date)
                                ELSE state.prev_published[c]]
                  IN core_loop(feed, i + 1, target_category, now, writes,
                        [prev_published |-> doc,
                         updates |-> state.updates + 1,
                         file |-> written_file(state.file, doc, writes[state.updates + 1])])

\* get_latest_news_by_categories called with one target category and
\* without prev_published: what it leaves of last_published.json
get_latest_news_by_categories(file, feed, target_category, now, writes) ==
    core_loop(IF feed = FetchFailed THEN <<>> ELSE feed, 1, target_category, now, writes,
              [prev_published |-> EmptyDoc, updates |-> 0, file |-> file]).file

\* a mutant: the failure of the write leaves update_published_dates
update_published_dates_raises(write) == IF write = "written" THEN "returned" ELSE "raised"

\* how update_published_dates ends: its except logs the failure of the write
update_published_dates(write) == "returned"

(***************************************************************************)
(* Publish pipeline (main.py): what one run of publish_news_job does       *)
(* between two suspension points.                                          *)
(***************************************************************************)

\* the keys of SOURCE_READERS
SOURCE_READERS == {"beincrypto_com", "decrypt_co"}

NoItem == NewsItem("", None, "", FALSE)

\* last_published_at of publish_news_job: None without a stored string,
\* else the parsed string (a ValueError when it does not parse)
last_published_at(prev_published, source, category) ==
    LET last_published_at_str == doc_get(prev_published, source, category)
    IN IF last_published_at_str = Absent THEN None
       ELSE strptime_watermark(last_published_at_str)

\* a mutant: an empty reader result is not recognised
no_news_never(news_feed) == FALSE

\* "if not news_feed"
no_news(news_feed) == news_feed = <<>>

\* the fields of a job run that every new run starts from, the state
\* loaded; steps are the steps the run has taken, in their order
RunStart(job, run, prev_published, since) ==
    [job EXCEPT !.pc = "fired", !.run = run, !.prev_published = prev_published,
                !.since = since, !.item = NoItem, !.news = <<>>, !.image = "",
                !.next = 1, !.read = "", !.fetched = <<>>, !.read_now = 0,
                !.attempts = 0, !.delivered = 0, !.update_called = FALSE,
                !.wrote = FALSE, !.delivery_failed = FALSE, !.reports = <<>>,
                !.outcome = "", !.report_lost = FALSE, !.error_length = 0,
                !.temp_dir = "none", !.session = "none",
                !.answers = <<>>, !.rewrite_status = "", !.sent = <<>>,
                !.report_text = <<>>, !.report_length = 0,
                !.steps = <<"load">>]

\* a mutant: a post that is too long is delivered all the same
after_rewrite_delivers_too_long(job, item, res) ==
    IF res.status \in {"returned", "RewritedNewsIsTooLongError"}
    THEN [job EXCEPT !.pc = IF item.img_link THEN "download" ELSE "publish",
                     !.item = item,
                     !.news = IF res.status = "returned" THEN res.news ELSE res.rewrited_news,
                     !.attempts = res.attempts,
                     !.error_length = IF res.status = "returned" THEN 0
                                      ELSE res.rewrited_news_length]
    ELSE [job EXCEPT !.pc = "report_error", !.item = item, !.attempts = res.attempts]

\* process_and_publish_item up to its first await: the rewrite, then either
\* the delivery starts (the poster is built and, for an item with an image,
\* temp_download_async makes its directory before the request is awaited)
\* or the failure is on its way to a report
after_rewrite(job, item, res) ==
    IF res.status = "returned"
    THEN [job EXCEPT !.pc = IF item.img_link THEN "download" ELSE "publish",
                     !.item = item, !.news = res.news, !.attempts = res.attempts,
                     !.session = "open",
                     !.temp_dir = IF item.img_link THEN "exists" ELSE "none"]
    ELSE IF res.status = "RewritedNewsIsTooLongError"
    THEN [job EXCEPT !.pc = "report_toolong", !.item = item,
                     !.news = res.rewrited_news, !.attempts = res.attempts,
                     !.error_length = res.rewrited_news_length]
    ELSE [job EXCEPT !.pc = "report_error", !.item = item, !.attempts = res.attempts]

\* a mutant: a failure of the transport leaves send_service_report
send_service_report_raises(settings, transport_ok) ==
    IF transport_ok THEN "returned" ELSE "raised"

\* send_service_report of main.py: the poster is built outside the try, from
\* settings.tg_bot.SERVICE_CHANNELS, so a settings object without that
\* attribute raises AttributeError before anything is sent; inside the try
\* an exception of the poster is logged and swallowed
send_service_report(settings, transport_ok) ==
    IF "SERVICE_CHANNELS" \in settings.missing THEN "AttributeError" ELSE "returned"

\* the message of the report a run ends with
report_kind(pc) ==
    CASE pc = "report_nonews" -> "No fresh news found"
      [] pc = "report_toolong" -> "Error. Rewritten news is too long"
      [] pc = "report_published" -> "Published"
      [] OTHER -> "Error in publish job"

\* the place of a run whose report has been sent and whose send_service_report
\* is suspended at "await poster.close()" in its finally
close_pc(pc) ==
    CASE pc = "report_nonews" -> "close_nonews"
      [] pc = "report_toolong" -> "close_toolong"
      [] pc = "report_published" -> "close_published"
      [] OTHER -> "close_error"

\* the places of a run inside the finally of send_service_report
ClosePcs == {"close_nonews", "close_toolong", "close_published", "close_error"}

\* how the run ended, by the report it sent
run_outcome(pc) ==
    CASE pc = "close_nonews" -> "no-news"
      [] pc = "close_toolong" -> "rewrite-failure"
      [] pc = "close_published" -> "success"
      [] OTHER -> "error"

\* the job when its run is over: the locals of the run are gone
run_over(job) ==
    [job EXCEPT !.pc = "idle", !.news = <<>>, !.image = "", !.next = 1,
                !.prev_published = EmptyDoc]

\* a call of send_service_report up to the await of poster.close(): the
\* awaited send has returned or raised and the except has logged what it
\* raised, so the call goes on to its finally; an exception that leaves the
\* call (the AttributeError of the poster's construction, before anything
\* is awaited) is caught by the handler of publish_news_job, which reports
\* it, and leaves the job when it is raised by that handler's own report
reported(job, transport_ok, result) ==
    LET called == IF result = "AttributeError" THEN job
                  ELSE [job EXCEPT !.reports = Append(job.reports, report_kind(job.pc)),
                              !.steps = Append(job.steps, "report"),
                              !.report_lost = job.report_lost \/ ~transport_ok,
                              !.report_text = IF job.pc = "report_toolong" THEN job.news
                                              ELSE job.report_text,
                              !.report_length = IF job.pc = "report_toolong"
                                                THEN job.error_length
                                                ELSE job.report_length]
    IN IF result = "returned" THEN [called EXCEPT !.pc = close_pc(job.pc)]
       ELSE IF job.pc = "report_error" THEN [run_over(called) EXCEPT !.outcome = "raised"]
       ELSE [called EXCEPT !.pc = "report_error"]

\* poster.close() has returned: send_service_report returns, and with it
\* process_and_publish_item and publish_news_job; the run is over
report_closed(job) == [run_over(job) EXCEPT !.outcome = run_outcome(job.pc)]

\* the places of a run where send_service_report is called next
ReportPcs == {"report_nonews", "report_toolong", "report_published", "report_error"}

\* a run up to its first suspension: with no SERVICE_CHANNELS on the settings
\* object send_service_report raises before it awaits anything, the handler
\* of publish_news_job catches it, and the handler's own report raises the
\* same way and leaves the job
to_first_await(job, settings) ==
    IF job.pc \in ReportPcs /\ "SERVICE_CHANNELS" \in settings.missing
    THEN LET first == reported(job, TRUE, send_service_report(settings, TRUE))
         IN IF first.pc = "idle" THEN first
            ELSE reported(first, TRUE, send_service_report(settings, TRUE))
    ELSE job

\* publish_news_job from its start to its first await; answers are the
\* backend's answers rewrite_news used up, rewrite_status how it ended; on a
\* settings object without NEWS_TEXT_MAX_LENGTH or MAX_REWRITING_TRIES
\* process_and_publish_item raises AttributeError before it rewrites
publish_news_job(job, run, source, category, file, fetched, gen, now, settings) ==
  to_first_await(
    LET prev_published == load_last_published(file)
        since == last_published_at(prev_published, source, category)
        started == [RunStart(job, run, prev_published, since) EXCEPT !.file_kind = file.kind]
        news_feed == get_latest_news_by_category(source, fetched, category, 1, since, now)
        read == [started EXCEPT !.fetched = fetched, !.read_now = now,
                                !.read = IF news_feed = <<>> THEN "empty" ELSE "item",
                                !.steps = Append(started.steps, "read")]
    IN IF ~(since = None \/ IsDatetime(since)) THEN [started EXCEPT !.pc = "report_error"]
       ELSE IF source \notin SOURCE_READERS THEN [started EXCEPT !.pc = "report_error"]
       ELSE IF no_news(news_feed) THEN [read EXCEPT !.pc = "report_nonews"]
       ELSE IF news_feed = <<>> THEN [read EXCEPT !.pc = "idle", !.outcome = "returned"]
       ELSE IF {"NEWS_TEXT_MAX_LENGTH", "MAX_REWRITING_TRIES"} \cap settings.missing # {}
       THEN [read EXCEPT !.pc = "report_error", !.item = news_feed[1]]
       ELSE LET res == rewrite_news(gen, news_feed[1].link,
                                    settings.NEWS_TEXT_MAX_LENGTH,
                                    settings.MAX_REWRITING_TRIES)
            IN [after_rewrite(read, news_feed[1], res) EXCEPT
                   !.answers = SubSeq(gen, 1, res.attempts),
                   !.rewrite_status = res.status,
                   !.steps = Append(read.steps, "rewrite")],
    settings)

\* a mutant: the download directory is left behind
scope_exit_leaks(job) == [job EXCEPT !.session = "closed"]

\* the way out of publish_news_to_channels, by return or by exception: the
\* finally of temp_download_async removes the download directory when there
\* is one, the finally of publish_news_to_channels closes the poster
scope_exit(job) ==
    [job EXCEPT !.temp_dir = IF job.temp_dir = "exists" THEN "removed" ELSE job.temp_dir,
                !.session = "closed"]

\* a mutant: a failed delivery ends the run without a report
publish_failed_silent(job) ==
    [job EXCEPT !.pc = "idle", !.delivery_failed = TRUE, !.outcome = "error"]

\* a mutant: a failed delivery is swallowed and the run goes on
publish_failed_swallowed(job) == [job EXCEPT !.pc = "update", !.delivery_failed = TRUE]

\* an exception leaves publish_news_to_channels: process_and_publish_item
\* logs and re-raises it, publish_news_job catches it and reports; failed
\* and failed_feed remember the item and the feed of that run
publish_failed(job) ==
    [job EXCEPT !.pc = "report_error", !.delivery_failed = TRUE,
                !.failed = job.item, !.failed_feed = job.fetched,
                !.failed_run = job.run]

\* ChannelPoster.publish_news sends to the target channels, then to the
\* service channels
publish_channels(settings) == settings.TARGET_CHANNELS \o settings.SERVICE_CHANNELS

\* the number of send_photo calls of one publish_news: none without target
\* channels, else one for each target and each service channel
send_count(settings) ==
    IF settings.TARGET_CHANNELS = <<>> THEN 0 ELSE Len(publish_channels(settings))

\* a mutant: the run goes on to the state write after the first channel
after_send_first(next, settings) == "update"

\* where the run stands after the send to channel number next succeeded:
\* the loops of publish_news go on, or publish_news_to_channels returns and
\* update_published_dates is next
after_send(next, settings) ==
    IF next = send_count(settings) THEN "update" ELSE "publish"

\* ChannelPoster.send_photo: FSInputFile needs a path, so a post without a
\* prepared image cannot be sent; with one, the transport decides
send_photo(image_path, transport_ok) == image_path = "prepared" /\ transport_ok

(***************************************************************************)
(* The feed readers on bounded inputs                                      *)
(***************************************************************************)

\* longest feed the reader is checked on
MaxFeedLen == 2

Rfc822(t, tz) == [fmt |-> "rfc822", t |-> t, us |-> 0, tz |-> tz]

Iso(t, us, tz) == [fmt |-> "iso", t |-> t, us |-> us, tz |-> tz]

Junk == [fmt |-> "junk", t |-> 0, us |-> 0, tz |-> "naive"]

Only(date) == <<date, Absent, Absent>>

\* clock readings of a reader call
ReaderNows == {48}

\* the entries feeds are built from, at clock reading now
ReaderEntries(now) ==
    { Entry("a", Only(Rfc822(now - 2, "+00:00")), {"Gaming"}, TRUE),
      Entry("b", Only(Rfc822(now - 30, "+00:00")), {"gaming"}, FALSE),
      Entry("c", Only(Rfc822(now - 24, "+00:00")), {"gaming", "Coins"}, TRUE),
      Entry("d", Only(Rfc822(now - 25, "+00:00")), {"Gaming"}, FALSE),
      Entry("e", Only(Iso(now - 2, 1, "+00:00")), {"gaming"}, FALSE),
      Entry("f", <<Junk, Absent, Junk>>, {"gaming"}, FALSE),
      Entry("g", Only(Rfc822(now, "+00:00")), {"coins"}, TRUE),
      Entry("h", <<Junk, Rfc822(now - 1, "+00:00"), Absent>>, {"GAMING"}, FALSE),
      Entry("i", Only(Rfc822(now - 2, "+03:00")), {"gaming"}, FALSE),
      Entry("j", Only(Iso(now - 3, 0, "naive")), {}, FALSE) }

\* feeds: a failed fetch, or up to MaxFeedLen distinct entries in any order
ReaderFeeds(now) ==
    {FetchFailed} \cup
    UNION { { f \in [1..n -> ReaderEntries(now)] :
                \A x, y \in 1..n : x # y => f[x] # f[y] } : n \in 0..MaxFeedLen }

\* watermarks as publish_news_job passes them: None, or an aware datetime
\* without a fraction
ReaderSinces(now) ==
    {None} \cup { [t |-> now - age, us |-> 0, tz |-> "+00:00"] : age \in {1, 2, 24, 30} }

ReaderTargets == {"Gaming", "gaming", "coins"}

\* max_news_count: 1 from publish_news_job, 3 from the adapter's own example
ReaderCounts == {1, 3}

ReaderIdle ==
    [phase |-> "idle", source |-> "", feed |-> <<>>, target |-> "", count |-> 0,
     since |-> None, now |-> 0, result |-> <<>>]

RewriterIdle ==
    [phase |-> "idle", gen |-> <<>>, news_url |-> "", max_news_text_len |-> 0,
     max_rewriting_tries |-> 0,
     result |-> RewriteResult("", <<>>, 0, <<>>, <<>>, 0)]

\* a scheduler nothing was done with; last is the latest schedule_job call,
\* pc the position inside shutdown(), removed the number of jobs shutdown()
\* took from the table, fired the id of the job whose trigger fired last,
\* late_fire whether a trigger fired inside shutdown(), fire_outcome how
\* the run of that job ended, prev_fired and prev_outcome the same of the
\* firing before, faulty the ids in whose schedule_job a call into the
\* library raised since the table was emptied last
SchedIdle ==
    [running |-> FALSE, jobs |-> <<>>, calls |-> 0, faulty |-> {},
     pc |-> "", removed |-> 0, fired |-> "", late_fire |-> FALSE,
     fire_outcome |-> "", prev_fired |-> "", prev_outcome |-> "",
     last |-> [op |-> "", id |-> "", hours |-> 0, minutes |-> 0,
               kwargs |-> "", result |-> "", times |-> 0]]

StoreIdle ==
    [phase |-> "idle", file |-> json_dumps(EmptyDoc), source |-> "", category |-> "",
     pub_date |-> None, write |-> "written", state |-> EmptyDoc]

JobIdle ==
    [pc |-> "idle", run |-> 0, prev_published |-> EmptyDoc, since |-> None,
     item |-> NoItem, news |-> <<>>, image |-> "", next |-> 1,
     read |-> "", fetched |-> <<>>, read_now |-> 0, attempts |-> 0, delivered |-> 0,
     update_called |-> FALSE, wrote |-> FALSE, delivery_failed |-> FALSE,
     reports |-> <<>>, outcome |-> "",
     failed |-> NoItem, failed_feed |-> <<>>, failed_run |-> 0,
     marked |-> None, marked_run |-> 0, published |-> {}, republished |-> FALSE,
     file_kind |-> "", report_lost |-> FALSE,
     temp_dir |-> "none", session |-> "none",
     answers |-> <<>>, rewrite_status |-> "", sent |-> <<>>,
     completed |-> {}, restarted |-> FALSE, published_before |-> {},
     error_length |-> 0, report_text |-> <<>>, report_length |-> 0,
     steps |-> <<>>]

\* run_publisher before its schedule loop: pairs are the (entry, time)
\* pairs the loop has gone through, each with what became of it
\* exit is the exception that ended the schedule loop or the run loop,
\* shutdown whether scheduler.shutdown has been called, schedule the type of
\* settings.PUBLISHING_SCHEDULE, raised the exception that left
\* run_publisher
PublisherIdle ==
    [pc |-> "idle", pairs |-> <<>>, exit |-> "", shutdown |-> FALSE, schedule |-> "",
     raised |-> ""]

pipeVars == <<last_published_file, clock, feeds, app_settings, publish_job, publisher>>

\* the pipeline at rest, for the specifications of the single components
PipeIdle ==
    /\ last_published_file = json_dumps(EmptyDoc)
    /\ clock = 0
    /\ feeds = <<>>
    /\ app_settings = <<>>
    /\ publish_job = <<>>
    /\ publisher = PublisherIdle

vars == <<reader, rewriter, sched, store, last_published_file, clock, feeds, app_settings, publish_job,
          publisher>>

ReaderInit ==
    /\ \E now \in ReaderNows :
        \E source \in {"beincrypto_com", "decrypt_co"}, feed \in ReaderFeeds(now),
           target \in ReaderTargets, count \in ReaderCounts, since \in ReaderSinces(now) :
          reader = [phase |-> "input", source |-> source, feed |-> feed, target |-> target,
                    count |-> count, since |-> since, now |-> now, result |-> <<>>]
    /\ rewriter = RewriterIdle
    /\ sched = SchedIdle
    /\ store = StoreIdle
    /\ PipeIdle

\* one call of get_latest_news_by_category
ReaderCall ==
    /\ reader.phase = "input"
    /\ reader' = [reader EXCEPT
                    !.phase = "done",
                    !.result = get_latest_news_by_category(
                                  reader.source, reader.feed, reader.target,
                                  reader.count, reader.since, reader.now)]
    /\ UNCHANGED <<rewriter, sched, store, pipeVars>>

\* one call of get_latest_news_by_categories of core/parse_news_feed.py
ReaderCategoriesCall ==
    /\ reader.phase = "input"
    /\ \E writes \in [1..MaxFeedLen -> WriteOutcomes] :
         last_published_file' = get_latest_news_by_categories(
                                   last_published_file, reader.feed, reader.target,
                                   reader.now, writes)
    /\ reader' = [reader EXCEPT !.phase = "done_by_categories"]
    /\ UNCHANGED <<rewriter, sched, store, clock, feeds, app_settings, publish_job, publisher>>

ReaderNext == ReaderCall \/ ReaderCategoriesCall

SpecReader == ReaderInit /\ [][ReaderNext]_vars

(***************************************************************************)
(* The rewrite engine on bounded inputs                                    *)
(***************************************************************************)

\* largest max_rewriting_tries the engine is checked with
MaxTries == 3

GenOut(body, title) == [body |-> body, title |-> title]

\* what a stub backend answers to one attempt (body request, title request)
GenOutputs ==
    { GenOut(<<"a", "a">>, <<"t">>),
      GenOut(<<"a", "a", "a", "a", "a">>, <<"t">>),
      GenOut(<<"[", "a", "]", "(", "u", ")">>, <<"t">>),
      GenOut(<<"a", "a">>, <<"ESZETT">>),
      GenOut(<<"a", "a">>, <<"\"", "t", "\"">>),
      GenOut(<<"a", "a">>, GenError),
      GenOut(GenError, <<"t">>) }

\* values of max_news_text_len: the formatted posts above measure 25 to 41
RewriteMaxLens == {26, 30}

RewriterInit ==
    /\ \E gen \in [1..(MaxTries + 1) -> GenOutputs], len \in RewriteMaxLens,
          tries \in 0..MaxTries :
          rewriter = [RewriterIdle EXCEPT !.phase = "input", !.gen = gen, !.news_url = "url",
                                          !.max_news_text_len = len,
                                          !.max_rewriting_tries = tries]
    /\ reader = ReaderIdle
    /\ sched = SchedIdle
    /\ store = StoreIdle
    /\ PipeIdle

\* one call of rewrite_news
RewriterCall ==
    /\ rewriter.phase = "input"
    /\ rewriter' = [rewriter EXCEPT
                      !.phase = "done",
                      !.result = rewrite_news(rewriter.gen, rewriter.news_url,
                                              rewriter.max_news_text_len,
                                              rewriter.max_rewriting_tries)]
    /\ UNCHANGED <<reader, sched, store, pipeVars>>

SpecRewrite == RewriterInit /\ [][RewriterCall]_vars

(***************************************************************************)
(* The scheduler under bounded use                                         *)
(***************************************************************************)

\* number of schedule_job calls in one run of the scheduler
MaxScheduleCalls == 3

\* last day on which the trigger of a job fires
MaxFireDays == 2

SchedJobIds == {"job_a", "job_b"}

\* the time of day and the kwargs of a schedule_job call: two times of day
\* with different payloads, an hour and a minute out of range
SchedArgs ==
    { [hours |-> 0, minutes |-> 59, kwargs |-> "decrypt_co/gaming"],
      [hours |-> 23, minutes |-> 59, kwargs |-> "decrypt_co/coins"],
      [hours |-> 24, minutes |-> 59, kwargs |-> "decrypt_co/gaming"],
      [hours |-> 23, minutes |-> 60, kwargs |-> "decrypt_co/coins"] }

SchedInit ==
    /\ sched = SchedIdle
    /\ reader = ReaderIdle
    /\ rewriter = RewriterIdle
    /\ store = StoreIdle
    /\ PipeIdle

\* how often job_id was scheduled in a row, this call included
TimesInARow(job_id) ==
    IF sched.last.op = "schedule_job" /\ sched.last.id = job_id /\ sched.last.result = "True"
    THEN sched.last.times + 1 ELSE 1

\* SchedulerManager.schedule_job
ScheduleJob ==
    /\ sched.pc = ""
    /\ sched.calls < MaxScheduleCalls
    /\ \E job_id \in SchedJobIds, args \in SchedArgs, fail \in SchedFails :
         LET hours == args.hours
             minutes == args.minutes
             kwargs == args.kwargs
             res == schedule_job(sched.jobs, sched.running, job_id, hours, minutes,
                                 kwargs, fail)
         IN sched' = [sched EXCEPT
                        !.jobs = res.jobs,
                        !.calls = sched.calls + 1,
                        !.faulty = IF fail = {} THEN sched.faulty
                                   ELSE sched.faulty \cup {job_id},
                        !.last = [op |-> "schedule_job", id |-> job_id, hours |-> hours,
                                  minutes |-> minutes, kwargs |-> kwargs,
                                  result |-> res.result,
                                  times |-> IF res.result = "True"
                                            THEN TimesInARow(job_id) ELSE 0]]
    /\ UNCHANGED <<reader, rewriter, store, pipeVars>>

\* SchedulerManager.start: a scheduler that is not running is started; an
\* exception of scheduler.start() is logged and raised again
SchedStart ==
    /\ sched.pc = ""
    /\ ~sched.running
    /\ \E start_ok \in BOOLEAN :
         IF start_ok
         THEN sched' = [sched EXCEPT !.running = TRUE,
                                     !.jobs = start_jobs(sched.jobs, <<>>),
                                     !.last.op = "start"]
         ELSE sched' = [sched EXCEPT !.last.op = "start_raised"]
    /\ UNCHANGED <<reader, rewriter, store, pipeVars>>

\* SchedulerManager.remove_all_jobs, on a table with or without jobs
SchedRemoveAll ==
    /\ sched.pc = ""
    /\ \E remove_ok \in BOOLEAN :
         LET res == remove_all_jobs(sched.jobs, remove_ok)
         IN sched' = [sched EXCEPT
                        !.jobs = res.jobs,
                        !.faulty = IF res.result = "None" THEN {} ELSE sched.faulty,
                        !.last.op = IF res.result = "None" THEN "remove_all_jobs"
                                    ELSE "remove_all_jobs_raised"]
    /\ UNCHANGED <<reader, rewriter, store, pipeVars>>

\* the trigger of a job of the table fires while the scheduler runs
SchedFire ==
    /\ sched.running
    /\ \E i \in 1..Len(sched.jobs), outcome \in {"succeeded", "raised", "missed"} :
         /\ sched.jobs[i].next_run_time.day <= MaxFireDays
         /\ sched' = [sched EXCEPT !.jobs = fire_job(sched.jobs, i, outcome),
                                !.fired = sched.jobs[i].id,
                                !.fire_outcome = outcome,
                                !.prev_fired = sched.fired,
                                !.prev_outcome = sched.fire_outcome,
                                !.late_fire = sched.late_fire \/ sched.pc = "halting"]
    /\ UNCHANGED <<reader, rewriter, store, pipeVars>>

\* SchedulerManager.shutdown up to scheduler.shutdown(): only a running
\* scheduler is touched; remove_all_jobs empties the table, or raises and
\* shutdown() re-raises with the scheduler left as it was
SchedShutdown ==
    /\ sched.pc = ""
    /\ sched.running
    /\ \E remove_ok \in BOOLEAN :
         IF remove_ok
         THEN sched' = [sched EXCEPT !.jobs = remove_all_jobs(sched.jobs, TRUE).jobs,
                                     !.faulty = {},
                                     !.removed = Len(sched.jobs),
                                     !.pc = "halting",
                                     !.last.op = "remove_all_jobs"]
         ELSE sched' = [sched EXCEPT !.last.op = "shutdown_raised"]
    /\ UNCHANGED <<reader, rewriter, store, pipeVars>>

\* scheduler.shutdown(wait) of SchedulerManager.shutdown: the trigger
\* mechanism stops, or the call raises and shutdown() raises it again
SchedHalt ==
    /\ sched.pc = "halting"
    /\ \E halt_ok \in BOOLEAN :
         IF halt_ok
         THEN sched' = [sched EXCEPT !.running = FALSE, !.pc = "", !.last.op = "shutdown"]
         ELSE sched' = [sched EXCEPT !.pc = "", !.last.op = "shutdown_raised"]
    /\ UNCHANGED <<reader, rewriter, store, pipeVars>>

SchedNext ==
    ScheduleJob \/ SchedStart \/ SchedRemoveAll \/ SchedFire \/ SchedShutdown \/ SchedHalt

SpecSched == SchedInit /\ [][SchedNext]_vars

(***************************************************************************)
(* The publish state store on bounded inputs: load, update, load           *)
(***************************************************************************)

StoreSources == {"decrypt_co", "Decrypt_Co", "beincrypto_com"}

StoreCategories == {"Gaming", "gaming", "coins"}

\* published_at values: plain, with a fraction, with another offset, naive
StoreDates ==
    { [t |-> 46, us |-> 0, tz |-> "+00:00"], [t |-> 46, us |-> 1, tz |-> "+00:00"],
      [t |-> 47, us |-> 0, tz |-> "+03:00"], [t |-> 48, us |-> 1, tz |-> "naive"] }

\* files the store starts from: the bootstrap's {}, states written before,
\* a file that is not JSON
StoreFiles ==
    { json_dumps(EmptyDoc), CorruptFile,
      json_dumps(doc_set(EmptyDoc, "decrypt_co", "gaming", Iso(40, 0, "+00:00"))),
      json_dumps(doc_set(doc_set(EmptyDoc, "decrypt_co", "coins", Iso(40, 0, "+00:00")),
                         "beincrypto_com", "gaming", Iso(41, 0, "+00:00"))) }

StoreInit ==
    /\ \E file \in StoreFiles, source \in StoreSources, category \in StoreCategories,
          pub_date \in StoreDates, write \in WriteOutcomes :
          store = [phase |-> "start", file |-> file, source |-> source,
                   category |-> category, pub_date |-> pub_date, write |-> write,
                   state |-> EmptyDoc]
    /\ reader = ReaderIdle
    /\ rewriter = RewriterIdle
    /\ sched = SchedIdle
    /\ PipeIdle

\* state = load_last_published()
StoreLoad ==
    /\ store.phase = "start"
    /\ store' = [store EXCEPT !.phase = "loaded", !.state = load_last_published(store.file)]
    /\ UNCHANGED <<reader, rewriter, sched, pipeVars>>

\* update_published_dates(state, s, c, t)
StoreUpdate ==
    /\ store.phase = "loaded"
    /\ store' = [store EXCEPT
                   !.phase = "updated",
                   !.state = updated_doc(store.state, store.source, store.category,
                                         store.pub_date),
                   !.file = updated_file(store.file, store.state, store.source,
                                         store.category, store.pub_date, store.write)]
    /\ UNCHANGED <<reader, rewriter, sched, pipeVars>>

\* state = load_last_published(), again
StoreReload ==
    /\ store.phase = "updated"
    /\ store' = [store EXCEPT !.phase = "reloaded", !.state = load_last_published(store.file)]
    /\ UNCHANGED <<reader, rewriter, sched, pipeVars>>

StoreNext == StoreLoad \/ StoreUpdate \/ StoreReload

SpecStore == StoreInit /\ [][StoreNext]_vars

(***************************************************************************)
(* The pipeline: jobs of the schedule run and interleave at their awaits   *)
(***************************************************************************)

\* runs of all jobs together
MaxRuns == 2

\* the schedule entries, source and category as the configuration writes
\* them; the third names a source that has no reader
ScheduledJobs == {"j1", "j2", "j3"}

\* the jobs that run side by side
JobIds == {"j1", "j2"}

job_source(j) ==
    CASE j = "j1" -> "decrypt_co" [] j = "j2" -> "beincrypto_com" [] OTHER -> "cointelegraph_com"

job_category(j) ==
    CASE j = "j1" -> "Gaming" [] j = "j2" -> "coins" [] OTHER -> "news"

\* the clock readings, in hours: the start and a day later
Clocks == {48, 72}

\* what the sources publish while the publisher runs: an entry with an image
\* and one without, dated at the time they appear
NewEntries(source, now) ==
    IF source = "decrypt_co"
    THEN <<Entry("b", Only(Rfc822(now, "+00:00")), {"gaming", "coins"}, TRUE)>>
    ELSE <<Entry("h", Only(Rfc822(now, "+00:00")), {"gaming", "coins"}, FALSE)>>

\* the feeds when the publisher starts
FirstFeeds(now) ==
    [source \in SOURCE_READERS |->
        IF source = "decrypt_co"
        THEN <<Entry("a", Only(Rfc822(now - 2, "+00:00")), {"Gaming"}, TRUE)>>
        ELSE <<Entry("g", Only(Rfc822(now - 1, "+00:00")), {"Coins"}, TRUE)>>]

\* the settings object as config.py builds it: TgBotSettings has TOKEN and
\* TARGET_CHANNELS only, and Settings has neither NEWS_TEXT_MAX_LENGTH nor
\* MAX_REWRITING_TRIES; missing names the attributes a read of which raises
\* AttributeError
BuiltSettings ==
    [TARGET_CHANNELS |-> <<"t1">>, SERVICE_CHANNELS |-> <<>>,
     NEWS_TEXT_MAX_LENGTH |-> 0, MAX_REWRITING_TRIES |-> 0,
     missing |-> {"SERVICE_CHANNELS", "NEWS_TEXT_MAX_LENGTH", "MAX_REWRITING_TRIES"}]

\* configurations: the one config.py builds, and settings objects on which
\* the missing attributes have been set, with and without a target channel
Settings ==
    [TARGET_CHANNELS : {<<>>, <<"t1">>}, SERVICE_CHANNELS : {<<"s1">>},
     NEWS_TEXT_MAX_LENGTH : {26}, MAX_REWRITING_TRIES : {1}, missing : {{}}]
    \cup {BuiltSettings}

\* what the backend may answer in a job: a fitting post, one that is too
\* long, a failed body request
PipeOutputs ==
    { GenOut(<<"a", "a">>, <<"t">>),
      GenOut(<<"[", "a", "]", "(", "u", ")">>, <<"t">>),
      GenOut(GenError, <<"t">>) }

\* with a second rewriting try the backend may also fail a title request
BackendAnswers(settings) ==
    IF settings.MAX_REWRITING_TRIES > 1
    THEN PipeOutputs \cup {GenOut(<<"a", "a">>, GenError)}
    ELSE PipeOutputs

PipeInit ==
    /\ last_published_file = json_dumps(EmptyDoc)
    /\ clock = 48
    /\ feeds = FirstFeeds(clock)
    /\ app_settings \in Settings
    /\ publish_job = [j \in JobIds |-> JobIdle]
    /\ publisher = PublisherIdle
    /\ reader = ReaderIdle
    /\ rewriter = RewriterIdle
    /\ sched = SchedIdle
    /\ store = StoreIdle

others == <<reader, rewriter, sched, store, publisher>>

RECURSIVE runs_of(_)
runs_of(js) ==
    IF js = {} THEN 0
    ELSE LET j == CHOOSE x \in js : TRUE
         IN publish_job[j].run + runs_of(js \ {j})

\* the scheduler fires job j: publish_news_job runs to its first await; the
\* feed is fetched (or the fetch fails) and the backend answers
JobFire(j) ==
    /\ j \in DOMAIN publish_job
    /\ publish_job[j].pc = "idle"
    /\ runs_of(DOMAIN publish_job) < MaxRuns
    /\ \E fetched \in (IF job_source(j) \in SOURCE_READERS
                       THEN {feeds[job_source(j)], FetchFailed} ELSE {FetchFailed}),
          gen \in [1..app_settings.MAX_REWRITING_TRIES -> BackendAnswers(app_settings)] :
         publish_job' = [publish_job EXCEPT ![j] =
                    publish_news_job(publish_job[j], publish_job[j].run + 1, job_source(j), job_category(j),
                                     last_published_file, fetched, gen, clock, app_settings)]
    /\ UNCHANGED <<last_published_file, clock, feeds, app_settings, others>>

\* temp_download_async after its request and convert_and_resize_image: a
\* failed download raises, a failed conversion hands None on
Download(j) ==
    /\ j \in DOMAIN publish_job
    /\ publish_job[j].pc = "download"
    /\ \E download_ok \in BOOLEAN, convert_ok \in BOOLEAN :
         publish_job' = [publish_job EXCEPT ![j] =
                    IF download_ok
                    THEN [publish_job[j] EXCEPT !.pc = "publish",
                                        !.image = IF convert_ok THEN "prepared" ELSE "None",
                                        !.steps = Append(publish_job[j].steps, "image")]
                    ELSE publish_failed(scope_exit(publish_job[j]))]
    /\ UNCHANGED <<last_published_file, clock, feeds, app_settings, others>>

\* ChannelPoster.publish_news without target channels: a warning, nothing sent
PublishSkip(j) ==
    /\ j \in DOMAIN publish_job
    /\ publish_job[j].pc = "publish"
    /\ app_settings.TARGET_CHANNELS = <<>>
    /\ publish_job' = [publish_job EXCEPT ![j] =
                         scope_exit([publish_job[j] EXCEPT !.pc = "update"])]
    /\ UNCHANGED <<last_published_file, clock, feeds, app_settings, others>>

\* ChannelPoster.publish_news: the post goes to the next channel; sent are
\* the channels that have received it in this run
PublishSend(j) ==
    /\ j \in DOMAIN publish_job
    /\ publish_job[j].pc = "publish"
    /\ app_settings.TARGET_CHANNELS # <<>>
    /\ \E transport_ok \in BOOLEAN :
         publish_job' = [publish_job EXCEPT ![j] =
                    IF send_photo(publish_job[j].image, transport_ok)
                    THEN [(IF after_send(publish_job[j].next, app_settings) = "update"
                           THEN scope_exit(publish_job[j]) ELSE publish_job[j]) EXCEPT
                            !.delivered = publish_job[j].delivered + 1,
                            !.sent = Append(publish_job[j].sent,
                                            publish_channels(app_settings)[publish_job[j].next]),
                            !.published = publish_job[j].published \cup {publish_job[j].item.link},
                            !.republished =
                                publish_job[j].republished
                                  \/ (publish_job[j].delivered = 0
                                        /\ publish_job[j].item.link \in publish_job[j].published),
                            !.next = publish_job[j].next + 1,
                            !.steps = Append(publish_job[j].steps, "send"),
                            !.pc = after_send(publish_job[j].next, app_settings)]
                    ELSE publish_failed(scope_exit(publish_job[j]))]
    /\ UNCHANGED <<last_published_file, clock, feeds, app_settings, others>>

\* update_published_dates on the state this run loaded; the write may fail
\* before or after the file has been truncated
StateWrite(j) ==
    /\ j \in DOMAIN publish_job
    /\ publish_job[j].pc = "update"
    /\ \E write \in WriteOutcomes :
         /\ last_published_file' = updated_file(last_published_file, publish_job[j].prev_published, job_source(j), job_category(j),
                                 publish_job[j].item.published_at, write)
         /\ publish_job' = [publish_job EXCEPT ![j] =
                      [publish_job[j] EXCEPT
                         !.pc = IF update_published_dates(write) = "returned"
                                THEN "report_published" ELSE "report_error",
                         !.prev_published = updated_doc(publish_job[j].prev_published, job_source(j),
                                                        job_category(j), publish_job[j].item.published_at),
                         !.update_called = TRUE,
                         !.steps = Append(publish_job[j].steps, "write"),
                         !.wrote = (write = "written"),
                         !.completed = IF write = "written" /\ publish_job[j].delivered > 0
                                       THEN publish_job[j].completed \cup {publish_job[j].item.link}
                                       ELSE publish_job[j].completed,
                         !.failed = NoItem, !.failed_feed = <<>>, !.failed_run = 0,
                         !.marked = IF write = "written" /\ publish_job[j].delivered > 0
                                    THEN publish_job[j].item.published_at ELSE publish_job[j].marked,
                         !.marked_run = IF write = "written" /\ publish_job[j].delivered > 0
                                        THEN publish_job[j].run ELSE publish_job[j].marked_run]]
    /\ UNCHANGED <<clock, feeds, app_settings, others>>

\* send_service_report from the return of its awaited send to the await of
\* poster.close(); the transport to the service channels may fail
Report(j) ==
    /\ j \in DOMAIN publish_job
    /\ publish_job[j].pc \in ReportPcs
    /\ \E transport_ok \in BOOLEAN :
         publish_job' = [publish_job EXCEPT ![j] =
                    reported(publish_job[j], transport_ok,
                             send_service_report(app_settings, transport_ok))]
    /\ UNCHANGED <<last_published_file, clock, feeds, app_settings, others>>

\* the awaited poster.close() of send_service_report returns and the run ends
ReportClose(j) ==
    /\ j \in DOMAIN publish_job
    /\ publish_job[j].pc \in ClosePcs
    /\ publish_job' = [publish_job EXCEPT ![j] = report_closed(publish_job[j])]
    /\ UNCHANGED <<last_published_file, clock, feeds, app_settings, others>>

\* time passes
Tick ==
    /\ \E now \in Clocks :
         /\ now > clock
         /\ clock' = now
    /\ UNCHANGED <<last_published_file, feeds, app_settings, publish_job, others>>

\* a source publishes its next entry
FeedAdd ==
    /\ \E source \in SOURCE_READERS :
         /\ Len(feeds[source]) <= Len(NewEntries(source, clock))
         /\ feeds' = [feeds EXCEPT ![source] =
                        Append(feeds[source], NewEntries(source, clock)[Len(feeds[source])])]
    /\ UNCHANGED <<last_published_file, clock, app_settings, publish_job, others>>

Next ==
    \/ \E j \in ScheduledJobs :
          JobFire(j) \/ Download(j) \/ PublishSkip(j) \/ PublishSend(j)
            \/ StateWrite(j) \/ Report(j) \/ ReportClose(j)
    \/ Tick
    \/ FeedAdd

Spec == PipeInit /\ [][Next]_vars

(***************************************************************************)
(* One job of the schedule on its own, over the state files it may find    *)
(***************************************************************************)

\* state files at the start: the bootstrap's {}, a file that is not JSON, a
\* watermark written with a fraction of a second, a watermark as written
\* after the first entry of the feed was published
JobFiles ==
    { json_dumps(EmptyDoc), CorruptFile,
      json_dumps(doc_set(EmptyDoc, "beincrypto_com", "coins", Iso(40, 1, "+00:00"))),
      json_dumps(doc_set(doc_set(EmptyDoc, "beincrypto_com", "coins", Iso(47, 0, "+00:00")),
                         "decrypt_co", "Gaming", Iso(40, 0, "+00:00"))) }

\* configurations of a job alone: those above, and one with two target
\* channels and a second rewriting try
JobSettings ==
    Settings \cup
    { [TARGET_CHANNELS |-> <<"t1", "t2">>, SERVICE_CHANNELS |-> <<"s1">>,
       NEWS_TEXT_MAX_LENGTH |-> 26, MAX_REWRITING_TRIES |-> 2, missing |-> {}] }

JobInit ==
    /\ last_published_file \in {bootstrap(file) : file \in JobFiles \cup {MissingFile}}
    /\ clock = 48
    /\ feeds = FirstFeeds(clock)
    /\ app_settings \in JobSettings
    /\ \E j \in ScheduledJobs : publish_job = [k \in {j} |-> JobIdle]
    /\ publisher = PublisherIdle
    /\ reader = ReaderIdle
    /\ rewriter = RewriterIdle
    /\ sched = SchedIdle
    /\ store = StoreIdle

\* the process is stopped between two job runs and run_publisher started
\* again; published_before are the links of the items that were delivered
\* and whose watermark was written before the restart
Restart ==
    /\ \A j \in DOMAIN publish_job : publish_job[j].pc = "idle"
    /\ \E j \in DOMAIN publish_job : publish_job[j].completed # publish_job[j].published_before
    /\ last_published_file' = bootstrap(last_published_file)
    /\ publish_job' = [j \in DOMAIN publish_job |->
                         [publish_job[j] EXCEPT !.restarted = TRUE,
                                                !.published_before = publish_job[j].completed]]
    /\ UNCHANGED <<clock, feeds, app_settings, others>>

\* something outside the publisher removes last_published.json between two
\* runs, after the bootstrap of run_publisher
StateFileLost ==
    /\ \A j \in DOMAIN publish_job : publish_job[j].pc = "idle"
    /\ last_published_file.kind # "missing"
    /\ runs_of(DOMAIN publish_job) < MaxRuns
    /\ last_published_file' = MissingFile
    /\ UNCHANGED <<clock, feeds, app_settings, publish_job, others>>

JobNext == Next \/ Restart \/ StateFileLost

SpecJob == JobInit /\ [][JobNext]_vars

(***************************************************************************)
(* Claims about the feed readers                                           *)
(***************************************************************************)

\* what the same call returns without a watermark and without a limit
ReaderQualifying ==
    get_latest_news_by_category(reader.source, reader.feed, reader.target,
                                Len(reader.feed), None, reader.now)

\* C2: with a non-empty since, no returned item has published_at <= since,
\* and when since is the timestamp of the only qualifying entry the result
\* is empty.
C2_DedupInvariant ==
    (reader.phase = "done" /\ reader.since # None) =>
        /\ \A k \in 1..Len(reader.result) :
              \/ reader.result[k].published_at.t > reader.since.t
              \/ /\ reader.result[k].published_at.t = reader.since.t
                 /\ reader.result[k].published_at.us > reader.since.us
        /\ (Len(ReaderQualifying) = 1
              /\ dt_eq(ReaderQualifying[1].published_at, reader.since))
           => reader.result = <<>>

\* C2 witness: a call whose since is the timestamp of the only qualifying
\* entry has returned nothing.
C2_Witness ==
    /\ reader.phase = "done"
    /\ reader.since # None
    /\ Len(ReaderQualifying) = 1
    /\ dt_eq(ReaderQualifying[1].published_at, reader.since)
    /\ reader.result = <<>>

\* C3: for every since, no returned item is more than one day older than
\* now, and of two matching entries aged 2 and 30 hours only the 2-hour-old
\* one is returned when since is None.
C3_StalenessInvariant ==
    reader.phase = "done" =>
        /\ \A k \in 1..Len(reader.result) :
              reader.result[k].published_at.t >= reader.now - 24
        /\ (/\ reader.since = None
            /\ reader.target \in {"Gaming", "gaming"}
            /\ Len(reader.feed) = 2
            /\ {reader.feed[1].link, reader.feed[2].link} = {"a", "b"})
           => (Len(reader.result) = 1 /\ reader.result[1].link = "a")

\* C3 witness: the 2-hour / 30-hour feed was read with since = None and one
\* item came back.
C3_Witness ==
    /\ reader.phase = "done"
    /\ reader.since = None
    /\ Len(reader.feed) = 2
    /\ reader.feed[1].link = "b"
    /\ reader.feed[2].link = "a"
    /\ reader.target = "Gaming"
    /\ Len(reader.result) = 1
    /\ reader.result[1].published_at.t = reader.now - 2

\* processing entry e raises: beincrypto_com's _is_too_old on the naive
\* fallback date, decrypt_co's _parse_publication_date on its fallback
entry_raises(source, e, since, now) ==
    IF source = "beincrypto_com"
    THEN bein_is_too_old(FeedItem(e, now).pub_date, since, now) = "TypeError"
    ELSE ~IsDatetime(decrypt_parse_publication_date(e))

\* C23: every returned NewsItem has a timezone-aware published_at and a
\* lowercase category, whatever the letter case of the target category.
C23_NewsItemInvariant ==
    reader.phase = "done" =>
        \A k \in 1..Len(reader.result) :
            /\ IsAware(reader.result[k].published_at)
            /\ reader.result[k].category = lower(reader.result[k].category)

\* the date an adapter gives entry e: beincrypto_com's parse_date of the
\* pubDate, decrypt_co's first date field that parses
entry_date(source, e, now) ==
    IF source = "beincrypto_com" THEN parse_date(e.dates[1], now)
    ELSE decrypt_parse_publication_date(e)

\* entry e has a date, is not older than a day, is later than since and
\* carries the target category in some letter case
entry_qualifies(source, e, target, since, now) ==
    LET d == entry_date(source, e, now)
    IN /\ IsAware(d)
       /\ ~dt_lt(d, dt_minus(utcnow(now), timedelta(1)))
       /\ (since = None \/ dt_lt(since, d))
       /\ lower(target) \in {lower(c) : c \in e.cats}

ReaderQualifyingEntries ==
    {i \in 1..Len(reader.feed) :
        entry_qualifies(reader.source, reader.feed[i], reader.target, reader.since, reader.now)}

\* the qualifying entry with the greatest date, the first of the feed among
\* equals
ReaderLatest ==
    CHOOSE i \in ReaderQualifyingEntries :
        \A k \in ReaderQualifyingEntries :
            LET di == entry_date(reader.source, reader.feed[i], reader.now)
                dk == entry_date(reader.source, reader.feed[k], reader.now)
            IN dt_lt(dk, di) \/ (dt_eq(dk, di) /\ i <= k)

\* C26: with max_news_count = 1 at most one item is returned, and when
\* entries qualify it is the one with the greatest published_at, of equals
\* the first in feed order.
C26_Selection ==
    (reader.phase = "done" /\ reader.count = 1) =>
        /\ Len(reader.result) <= 1
        /\ ReaderQualifyingEntries # {} =>
              /\ Len(reader.result) = 1
              /\ reader.result[1].link = reader.feed[ReaderLatest].link

\* C27: every returned item comes from an entry whose lowercased categories
\* hold the lowercased target category.
C27_CategoryFilter ==
    (reader.phase = "done" /\ reader.target # "") =>
        \A k \in 1..Len(reader.result) :
            \E i \in 1..Len(reader.feed) :
                /\ reader.feed[i].link = reader.result[k].link
                /\ lower(reader.target) \in {lower(c) : c \in reader.feed[i].cats}

\* C27 witness: target "Gaming" over a feed of an entry tagged "GAMING" and
\* an entry tagged "coins" only; the first was returned, the second not.
C27_Witness ==
    /\ reader.phase = "done"
    /\ reader.target = "Gaming"
    /\ Len(reader.feed) = 2
    /\ {reader.feed[1].link, reader.feed[2].link} = {"h", "g"}
    /\ Len(reader.result) = 1
    /\ reader.result[1].link = "h"

(***************************************************************************)
(* Claims about the rewrite engine                                         *)
(***************************************************************************)

\* the formatted text of the k-th attempt, assembled from its parts
AttemptText(k) ==
    <<"<", "b", ">">> \o upper(create_title(rewriter.gen[k].title))
        \o <<"<", "/", "b", ">", "\n", "\n">>
        \o convert_md_links_to_html(rewriter.gen[k].body)
        \o <<"\n", "\n", "#", "q", "u", "e", "s", "t", "s", "_", "n", "e", "w", "s">>

\* the k-th attempt yields a text, and it is longer than the limit
AttemptTooLong(k) ==
    /\ rewriter.gen[k].body # GenError
    /\ Len(AttemptText(k)) > rewriter.max_news_text_len

\* C4: a text that rewrite_news returns is never longer than
\* max_news_text_len.
C4_NeverReturnsTooLong ==
    (rewriter.phase = "done" /\ rewriter.result.status = "returned") =>
        Len(rewriter.result.news) <= rewriter.max_news_text_len

\* C4 witness: a text was returned after an earlier attempt was too long.
C4_Witness ==
    /\ rewriter.phase = "done"
    /\ rewriter.result.status = "returned"
    /\ rewriter.result.attempts = 2
    /\ AttemptTooLong(1)
    /\ Len(rewriter.result.news) = rewriter.max_news_text_len

\* C5: when each of the max_tries >= 1 attempts is too long, exactly
\* max_tries attempts are made and RewritedNewsIsTooLongError carries the
\* input, the last attempt's text and the measured length of that text.
C5_RetryExhaustion ==
    (/\ rewriter.phase = "done"
     /\ rewriter.max_rewriting_tries >= 1
     /\ \A k \in 1..rewriter.max_rewriting_tries : AttemptTooLong(k))
    => /\ rewriter.result.status = "RewritedNewsIsTooLongError"
       /\ rewriter.result.attempts = rewriter.max_rewriting_tries
       /\ rewriter.result.original_news = <<"from ", rewriter.news_url>>
       /\ rewriter.result.rewrited_news = AttemptText(rewriter.max_rewriting_tries)
       /\ rewriter.result.rewrited_news_length
            = Len(AttemptText(rewriter.max_rewriting_tries))

\* C5 witness: three attempts, all too long, the last one of another length
\* than the first, and the error carries the last length.
C5_Witness ==
    /\ rewriter.phase = "done"
    /\ rewriter.max_rewriting_tries = 3
    /\ \A k \in 1..3 : AttemptTooLong(k)
    /\ Len(AttemptText(1)) # Len(AttemptText(3))
    /\ rewriter.result.status = "RewritedNewsIsTooLongError"
    /\ rewriter.result.attempts = 3
    /\ rewriter.result.rewrited_news_length = Len(AttemptText(3))

\* the k-th attempt yields a text, and it is within the limit
AttemptFits(k) ==
    /\ rewriter.gen[k].body # GenError
    /\ Len(AttemptText(k)) <= rewriter.max_news_text_len

\* C28: when attempt k of 1..max_tries is the first whose formatted text
\* fits, rewrite_news returns the text of attempt k after exactly k
\* attempts.
C28_EarlyReturn ==
    rewriter.phase = "done" =>
        \A k \in 1..rewriter.max_rewriting_tries :
            (AttemptFits(k) /\ \A i \in 1..(k - 1) : AttemptTooLong(i)) =>
                /\ rewriter.result.status = "returned"
                /\ rewriter.result.attempts = k
                /\ rewriter.result.news = AttemptText(k)

\* C28 witness: of three tries the first was too long, the second fitted
\* and was returned, and the third, never made, would have fitted too with
\* another text.
C28_Witness ==
    /\ rewriter.phase = "done"
    /\ rewriter.max_rewriting_tries = 3
    /\ AttemptTooLong(1)
    /\ AttemptFits(2)
    /\ AttemptFits(3)
    /\ AttemptText(3) # AttemptText(2)
    /\ rewriter.result.status = "returned"
    /\ rewriter.result.attempts = 2

\* C30: every attempt is judged by the length of its formatted post: the
\* attempts before the last one made were longer than the limit, a returned
\* post is within it, and the error carries the length of the formatted
\* post of the last attempt.
C30_FormattedLength ==
    (rewriter.phase = "done"
       /\ rewriter.result.status \in {"returned", "RewritedNewsIsTooLongError"}) =>
        LET n == rewriter.result.attempts
        IN /\ \A k \in 1..(n - 1) : Len(AttemptText(k)) > rewriter.max_news_text_len
           /\ rewriter.result.status = "returned" =>
                 /\ rewriter.result.news = AttemptText(n)
                 /\ Len(AttemptText(n)) <= rewriter.max_news_text_len
           /\ rewriter.result.status = "RewritedNewsIsTooLongError" =>
                 /\ Len(AttemptText(n)) > rewriter.max_news_text_len
                 /\ rewriter.result.rewrited_news_length = Len(AttemptText(n))

\* C30 witness: the raw answer of the backend is far below the limit, its
\* formatted post, with a link converted and a title that grows when
\* uppercased, is above it, and the error carries the formatted length.
C30_Witness ==
    /\ rewriter.phase = "done"
    /\ rewriter.max_rewriting_tries = 2
    /\ rewriter.result.status = "RewritedNewsIsTooLongError"
    /\ rewriter.gen[1].title = <<"ESZETT">>
    /\ rewriter.gen[2].body = <<"[", "a", "]", "(", "u", ")">>
    /\ Len(rewriter.gen[2].body) < rewriter.max_news_text_len
    /\ rewriter.result.rewrited_news_length = Len(AttemptText(2))
    /\ rewriter.result.rewrited_news_length > rewriter.max_news_text_len

(***************************************************************************)
(* Claims about the scheduler                                              *)
(***************************************************************************)

JobsWithId(job_id) == {i \in 1..Len(sched.jobs) : sched.jobs[i].id = job_id}

\* C6: after schedule_job was called N >= 1 times with one job id, the job
\* table holds exactly one job of that id, with the trigger and the payload
\* of the last call, on a stopped and on a running scheduler; this for every
\* id in whose schedule_job calls the library raised nothing.
C6_IdempotentRegistration ==
    (/\ sched.last.op = "schedule_job"
     /\ sched.last.result = "True"
     /\ sched.last.id \notin sched.faulty) =>
        /\ Cardinality(JobsWithId(sched.last.id)) = 1
        /\ \A i \in JobsWithId(sched.last.id) :
              /\ sched.jobs[i].hours = sched.last.hours
              /\ sched.jobs[i].minutes = sched.last.minutes
              /\ sched.jobs[i].kwargs = sched.last.kwargs

\* C6 witness: the same id was scheduled three times in a row with no call
\* into the library raising, the last time with another time of day and
\* payload than the job in the table had, and the table holds one job.
C6_Witness ==
    /\ sched.last.op = "schedule_job"
    /\ sched.last.result = "True"
    /\ sched.last.times = 3
    /\ sched.faulty = {}
    /\ sched.jobs = <<Job(sched.last.id, 23, 59, "decrypt_co/coins")>>

\* C16: when shutdown() halts a running scheduler the job table is already
\* empty: it is empty between the removal and the halt, no trigger fires
\* inside shutdown(), and the stopped scheduler holds no job.
C16_ShutdownOrdering ==
    /\ sched.pc = "halting" => sched.jobs = <<>>
    /\ ~sched.late_fire
    /\ sched.last.op = "shutdown" => (sched.jobs = <<>> /\ ~sched.running)

\* C16 witness: a running scheduler whose jobs had fired was shut down, and
\* shutdown() took two jobs from the table before the halt.
C16_Witness ==
    /\ sched.last.op = "shutdown"
    /\ ~sched.running
    /\ sched.removed = 2
    /\ sched.fired # ""

\* the ids of the jobs of a table
job_ids(jobs) == {jobs[i].id : i \in 1..Len(jobs)}

\* the job of the table with the given id
job_of(jobs, job_id) == jobs[CHOOSE i \in 1..Len(jobs) : jobs[i].id = job_id]

C7_RoundTrip ==
    (store.phase = "reloaded" /\ store.write = "written") =>
        /\ store.source \in DOMAIN store.state
        /\ store.category \in DOMAIN store.state[store.source]
        /\ store.state[store.source][store.category]
             = [fmt |-> "iso", t |-> store.pub_date.t, us |-> store.pub_date.us,
                tz |-> store.pub_date.tz]

(***************************************************************************)
(* Claims about the pipeline                                               *)
(***************************************************************************)

\* C1: once a run of a job has delivered an item and written the state,
\* every later run of that job, keyed by the source and category of the
\* schedule, reads the published_at of that item as since, and no link is
\* delivered in two runs of one job.
C1_DedupAcrossRuns ==
    \A j \in JobIds :
        LET r == publish_job[j]
        IN /\ (r.marked_run > 0 /\ r.run > r.marked_run)
                => (IsDatetime(r.since) /\ dt_eq(r.since, r.marked))
           /\ ~r.republished

\* C8: a run whose reader returned nothing sends one "no fresh news" report
\* and nothing else: no rewrite attempt, no delivery, no call of
\* update_published_dates, no write of the state file, and it returns.
C8_NoNewsRun ==
    \A j \in JobIds :
        LET r == publish_job[j]
        IN r.read = "empty" =>
             /\ r.pc \in {"report_nonews", "close_nonews", "idle"}
             /\ r.attempts = 0
             /\ r.delivered = 0
             /\ ~r.update_called
             /\ ~r.wrote
             /\ r.pc = "report_nonews" => r.reports = <<>>
             /\ r.pc \in {"close_nonews", "idle"} => r.reports = <<"No fresh news found">>
             /\ r.pc = "idle" => r.outcome = "no-news"

\* C8 witness: a run over a feed that has entries, none of them qualifying,
\* is over.
C8_Witness ==
    \E j \in JobIds :
        /\ publish_job[j].read = "empty"
        /\ publish_job[j].pc = "idle"
        /\ publish_job[j].fetched # FetchFailed
        /\ publish_job[j].reports = <<"No fresh news found">>

\* C9: a run that wrote the state file delivered its post to a channel.
C9_OnlyDeliveredAdvances ==
    \A j \in JobIds : publish_job[j].wrote => publish_job[j].delivered > 0

\* C10: a run whose delivery raised neither calls update_published_dates nor
\* writes the state file, and a later run of the job over the same feed, the
\* failed item still inside the staleness window, selects that item again.
C10_AtLeastOnce ==
    \A j \in JobIds :
        LET r == publish_job[j]
        IN /\ r.delivery_failed => (~r.update_called /\ ~r.wrote)
           /\ (/\ r.failed_run > 0
               /\ r.run > r.failed_run
               /\ r.read # ""
               /\ r.fetched = r.failed_feed
               /\ r.failed.published_at.t >= r.read_now - timedelta(1))
                => (r.read = "item" /\ r.item = r.failed)

\* C10 witness: the delivery of a run raised after the post had reached a
\* channel, and a later run of the job has selected the same item.
C10_Witness ==
    \E j \in JobIds :
        /\ publish_job[j].failed_run > 0
        /\ publish_job[j].run > publish_job[j].failed_run
        /\ publish_job[j].fetched = publish_job[j].failed_feed
        /\ publish_job[j].item = publish_job[j].failed
        /\ publish_job[j].item.link # ""
        /\ publish_job[j].item.link \in publish_job[j].published

(***************************************************************************)
(* run_publisher loading a schedule of bounded (entry, time) pairs          *)
(***************************************************************************)

\* number of (entry, time) pairs of the schedule
MaxPairs == 3

decrypt_co == <<"d", "e", "c", "r", "y", "p", "t", "_", "c", "o">>

beincrypto_com == <<"b", "e", "i", "n", "c", "r", "y", "p", "t", "o", "_", "c", "o", "m">>

\* the keys of SOURCE_READERS
SourceReaderKeys == {decrypt_co, beincrypto_com}

LoadSources == {decrypt_co, <<"d", "e", "c", "r", "y", "p", "t">>}

LoadCategories == {<<"g", "a", "m", "i", "n", "g">>, <<"c", "o", "_", "g", "a", "m", "i", "n", "g">>}

\* "9:30", "09:30", "1_0:30", " 9:30", "24:00", "0:60", "x:30", "1:2:3"
LoadTimes ==
    {<<"9", ":", "3", "0">>, <<"0", "9", ":", "3", "0">>,
     <<"1", "_", "0", ":", "3", "0">>, <<" ", "9", ":", "3", "0">>,
     <<"2", "4", ":", "0", "0">>, <<"0", ":", "6", "0">>,
     <<"x", ":", "3", "0">>, <<"1", ":", "2", ":", "3">>}

\* settings.PUBLISHING_SCHEDULE: the str config.py declares and validates
\* (comma-separated HH:MM, never empty), or a list of entries set on the
\* settings object
ScheduleTypes == {"str", "list"}

LoadInit ==
    /\ \E schedule \in ScheduleTypes :
         publisher = [PublisherIdle EXCEPT !.pc = "loading", !.schedule = schedule]
    /\ sched = SchedIdle
    /\ reader = ReaderIdle
    /\ rewriter = RewriterIdle
    /\ store = StoreIdle
    /\ last_published_file = json_dumps(EmptyDoc)
    /\ clock = 0
    /\ feeds = <<>>
    /\ app_settings = <<>>
    /\ publish_job = <<>>

\* the schedule loop over a str: item is a one-character string, and
\* item['time'] raises TypeError outside the try of the inner loop; it
\* leaves run_publisher before scheduler.start() and before the try whose
\* finally shuts the scheduler down
LoadTypeError ==
    /\ publisher.pc = "loading"
    /\ publisher.schedule = "str"
    /\ publisher' = [publisher EXCEPT !.pc = "raised", !.exit = "TypeError",
                                      !.raised = "TypeError"]
    /\ UNCHANGED <<sched, reader, rewriter, store, last_published_file, clock, feeds,
                   app_settings, publish_job>>

\* the library calls that raise while a pair is scheduled: the library is
\* called for a time of day only; one call fails in a load at most, get_job
\* for the failures _remove_job_if_exists swallows and add_job for those
\* schedule_job answers by False
LoadFails(time_str) ==
    LET time == parse_time(time_str)
    IN IF /\ time.ok /\ valid_time(time.hours, time.minutes)
          /\ \A i \in 1..Len(publisher.pairs) : publisher.pairs[i].fail = {}
       THEN {{}, {"get_job"}, {"add_job"}} ELSE {{}}

\* one pass of the loop "for item ... for time_str in item['time']" over a
\* list of entries
LoadPair ==
    /\ publisher.pc = "loading"
    /\ publisher.schedule = "list"
    /\ Len(publisher.pairs) < MaxPairs
    /\ \E source \in LoadSources, category \in LoadCategories, time_str \in LoadTimes :
       \E fail \in LoadFails(time_str) :
         LET res == load_pair(sched.jobs, sched.running, source, category, time_str, fail)
         IN /\ sched' = [sched EXCEPT !.jobs = res.jobs]
            /\ publisher' = [publisher EXCEPT
                                !.pairs = Append(publisher.pairs,
                                                 [source |-> source, category |-> category,
                                                  time_str |-> time_str, log |-> res.log,
                                                  fail |-> fail])]
    /\ UNCHANGED <<reader, rewriter, store, last_published_file, clock, feeds, app_settings,
                   publish_job>>

\* scheduler.start() after the loop; an exception of the library's start
\* is raised again by SchedulerManager.start and leaves run_publisher
LoadStart ==
    /\ publisher.pc = "loading"
    /\ publisher.schedule = "list"
    /\ \E start_ok \in BOOLEAN :
         IF start_ok
         THEN /\ sched' = [sched EXCEPT !.running = TRUE,
                                        !.jobs = start_jobs(sched.jobs, <<>>),
                                        !.last.op = "start"]
              /\ publisher' = [publisher EXCEPT !.pc = "started"]
         ELSE /\ sched' = [sched EXCEPT !.last.op = "start_raised"]
              /\ publisher' = [publisher EXCEPT !.pc = "raised", !.raised = "Exception"]
    /\ UNCHANGED <<reader, rewriter, store, last_published_file, clock, feeds, app_settings,
                   publish_job>>

\* one pass of "while True": on the hour the next run time of the first
\* job of the table is logged, then the loop sleeps; signal is what arrives
\* during the sleep: under asyncio.run an interrupt cancels the main task,
\* so the sleep raises CancelledError, which the except clause for
\* KeyboardInterrupt and SystemExit does not catch
run_loop_pass(jobs, on_the_hour, signal) ==
    IF on_the_hour /\ jobs = <<>> THEN "IndexError"
    ELSE IF signal # "none" THEN signal
    ELSE "sleep"

\* what may arrive while the run loop sleeps
Signals == {"none", "CancelledError", "KeyboardInterrupt", "SystemExit"}

\* a pass of the run loop; an exception ends the loop and leads to the
\* finally clause
RunPass ==
    /\ publisher.pc = "started"
    /\ \E on_the_hour \in BOOLEAN, signal \in Signals :
         LET res == run_loop_pass(sched.jobs, on_the_hour, signal)
         IN publisher' = IF res = "sleep" THEN publisher
                         ELSE [publisher EXCEPT !.pc = "finally", !.exit = res]
    /\ UNCHANGED <<sched, reader, rewriter, store, last_published_file, clock, feeds,
                   app_settings, publish_job>>

\* finally: scheduler.shutdown(wait=True); what it raises leaves
\* run_publisher in place of the exception that ended the loop, and an
\* interrupt the except clause caught leaves nothing to raise
RunShutdown ==
    /\ publisher.pc = "finally"
    /\ \E fail \in ShutdownFails :
         LET res == shutdown(sched.jobs, sched.running, fail)
         IN /\ sched' = [sched EXCEPT !.jobs = res.jobs, !.running = res.running,
                                      !.last.op = IF res.result = "raised"
                                                  THEN "shutdown_raised" ELSE "shutdown"]
            /\ publisher' = [publisher EXCEPT
                                !.pc = "exited", !.shutdown = TRUE,
                                !.raised = IF res.result = "raised" THEN "Exception"
                                           ELSE IF publisher.exit \in {"KeyboardInterrupt",
                                                                       "SystemExit"}
                                           THEN ""
                                           ELSE publisher.exit]
    /\ UNCHANGED <<reader, rewriter, store, last_published_file, clock, feeds, app_settings,
                   publish_job>>

LoadNext == LoadTypeError \/ LoadPair \/ LoadStart \/ RunPass \/ RunShutdown

SpecLoad == LoadInit /\ [][LoadNext]_vars

(***************************************************************************)
(* Claims about one job run                                                *)
(***************************************************************************)

\* C11: a run that is over has called send_service_report once, with the
\* message of its outcome (success, no-news, rewrite failure, delivery
\* failure or another error), and a run that is not over has not called it.
C11_OneReportPerRun ==
    \A j \in DOMAIN publish_job :
        LET r == publish_job[j]
        IN /\ (r.run > 0 /\ r.pc = "idle") =>
                /\ Len(r.reports) = 1
                /\ r.outcome = "success" => r.reports[1] = "Published"
                /\ r.outcome = "no-news" => r.reports[1] = "No fresh news found"
                /\ r.outcome = "rewrite-failure"
                     => r.reports[1] = "Error. Rewritten news is too long"
                /\ r.delivery_failed => r.reports[1] = "Error in publish job"
           /\ r.pc \in ClosePcs => (\E kind \in ReportPcs : r.reports = <<report_kind(kind)>>)
           /\ r.pc \notin ClosePcs \cup {"idle"} => r.reports = <<>>

\* C11 witness: a run whose delivery failed after the post had reached a
\* channel is over, with its one report.
C11_Witness ==
    \E j \in DOMAIN publish_job :
        /\ publish_job[j].pc = "idle"
        /\ publish_job[j].delivery_failed
        /\ publish_job[j].delivered > 0
        /\ publish_job[j].reports = <<"Error in publish job">>

\* C12: no run ends with an exception leaving publish_news_job: whatever
\* failed in it (the state file, the watermark, the source, the feed, the
\* rewrite, the image, the delivery, the state write, the report), a run that
\* is over returned.
C12_JobBoundary ==
    \A j \in DOMAIN publish_job :
        LET r == publish_job[j]
        IN /\ r.outcome # "raised"
           /\ (r.run > 0 /\ r.pc = "idle")
                => r.outcome \in {"success", "no-news", "rewrite-failure", "error"}

\* C12 witness: the delivery of a run failed, the transport of its error
\* report failed as well, and the run returned.
C12_Witness ==
    \E j \in DOMAIN publish_job :
        /\ publish_job[j].pc = "idle"
        /\ publish_job[j].delivery_failed
        /\ publish_job[j].report_lost
        /\ publish_job[j].outcome = "error"

\* C19: a run whose rewrite raised RewritedNewsIsTooLongError reports once,
\* with the rewritten text and its length (above the limit), delivers
\* nothing, neither calls update_published_dates nor writes the state file,
\* and returns.
C19_RewriteFailure ==
    \A j \in DOMAIN publish_job :
        LET r == publish_job[j]
        IN (r.error_length > 0) =>
             /\ r.pc \in {"report_toolong", "close_toolong", "idle"}
             /\ r.delivered = 0
             /\ ~r.update_called
             /\ ~r.wrote
             /\ r.error_length > app_settings.NEWS_TEXT_MAX_LENGTH
             /\ r.pc = "report_toolong" => (r.reports = <<>> /\ r.error_length = Len(r.news))
             /\ r.pc \in {"close_toolong", "idle"} =>
                  /\ r.reports = <<"Error. Rewritten news is too long">>
                  /\ r.report_length = r.error_length
                  /\ Len(r.report_text) = r.report_length
             /\ r.pc = "idle" => r.outcome = "rewrite-failure"

\* C19 witness: a run is over whose rewrite was too long for the limit.
C19_Witness ==
    \E j \in DOMAIN publish_job :
        /\ publish_job[j].pc = "idle"
        /\ publish_job[j].outcome = "rewrite-failure"
        /\ publish_job[j].attempts = app_settings.MAX_REWRITING_TRIES
        /\ publish_job[j].report_length > app_settings.NEWS_TEXT_MAX_LENGTH

\* C20: a run that found no state file, or one it could not parse, goes on
\* with since = None: the load is followed by the feed read of a known
\* source, and nothing of the file counts as a watermark.
C20_LoadNeverRaises ==
    \A j \in DOMAIN publish_job :
        LET r == publish_job[j]
        IN (r.run > 0 /\ r.file_kind \in {"corrupt", "missing"}) =>
             /\ r.since = None
             /\ job_source(j) \in SOURCE_READERS
                  => (r.read # "" /\ SubSeq(r.steps, 1, 2) = <<"load", "read">>)

\* C20 witness: a run that found no state file selected the first entry of
\* the feed and is delivering it.
C20_Witness ==
    \E j \in DOMAIN publish_job :
        /\ publish_job[j].file_kind = "missing"
        /\ publish_job[j].since = None
        /\ publish_job[j].read = "item"
        /\ publish_job[j].pc = "publish"

\* the place of a step in the order of publish_news_job and
\* process_and_publish_item
step_rank(step) ==
    CASE step = "load" -> 1 [] step = "read" -> 2 [] step = "rewrite" -> 3
      [] step = "image" -> 4 [] step = "send" -> 5 [] step = "write" -> 6
      [] OTHER -> 7

\* the steps of a run that delivered to count channels, with or without an
\* image to prepare, wrote the state and reported
RECURSIVE sends(_)
sends(count) == IF count = 0 THEN <<>> ELSE Append(sends(count - 1), "send")

successful_steps(with_image, count) ==
    <<"load", "read", "rewrite">> \o (IF with_image THEN <<"image">> ELSE <<>>)
        \o sends(count) \o <<"write", "report">>

\* C29: the steps of a run are taken in the order state load, feed read,
\* rewrite, image preparation, delivery, state write, report, each but the
\* send to a channel once at most; when the state write is taken the post
\* has been sent to every channel; a success report comes after the state
\* write, and a run that ended as a success has taken all the steps.
C29_StepOrder ==
    \A j \in DOMAIN publish_job :
        LET r == publish_job[j]
        IN /\ \A a \in DOMAIN r.steps, b \in DOMAIN r.steps :
                 a < b => \/ step_rank(r.steps[a]) < step_rank(r.steps[b])
                          \/ r.steps[a] = "send" /\ r.steps[b] = "send"
           /\ (\E n \in DOMAIN r.steps : r.steps[n] = "write") =>
                 /\ Cardinality({n \in DOMAIN r.steps : r.steps[n] = "send"})
                       = send_count(app_settings)
                 /\ r.delivered = send_count(app_settings)
                 /\ ~r.delivery_failed
           /\ (r.delivered > 0 /\ r.pc # "idle") =>
                 /\ r.image = "prepared"
                 /\ r.attempts >= 1
                 /\ r.news # <<>>
           /\ (\E n \in 1..Len(r.reports) : r.reports[n] = "Published") =>
                 /\ r.reports = <<"Published">>
                 /\ r.steps = successful_steps(r.item.img_link, send_count(app_settings))
           /\ r.outcome = "success" => r.reports = <<"Published">>

\* C29 witness: a successful run over: the post went to the target and the
\* service channel, the state file was written, the report sent.
C29_Witness ==
    \E j \in DOMAIN publish_job :
        /\ publish_job[j].pc = "idle"
        /\ publish_job[j].outcome = "success"
        /\ publish_job[j].delivered = 2
        /\ publish_job[j].wrote
        /\ publish_job[j].steps = <<"load", "read", "rewrite", "image", "send", "send",
                                    "write", "report">>

\* C38: for every size of the job table, an empty one included, the run
\* loop is left by an interrupt only, and when run_publisher is over
\* scheduler.shutdown has been called.
C38_RunLoop ==
    /\ publisher.pc \in {"finally", "exited"}
         => publisher.exit \in {"CancelledError", "KeyboardInterrupt", "SystemExit"}
    /\ publisher.pc = "exited" => publisher.shutdown

\* C37: for every aware published_at, with or without a fraction of a
\* second, the string update_published_dates has stored is accepted by the
\* watermark parsing of the next run: strptime returns a datetime, and the
\* run's watermark is None or a datetime, never an exception.
C37_WatermarkFormat ==
    (store.phase = "reloaded" /\ store.write = "written" /\ IsAware(store.pub_date))
        => /\ IsDatetime(strptime_watermark(
                  doc_get(store.state, lower(store.source), lower(store.category))))
           /\ LET since == last_published_at(store.state, store.source, store.category)
              IN since = None \/ IsDatetime(since)

\* C36: publish_news sends the post to every target channel in list order
\* and only then to every service channel; when the send to channel k
\* fails, the channels before k have received the post, no channel from k
\* on has, and the state is not written.
C36_FanOut ==
    \A j \in DOMAIN publish_job :
        LET r == publish_job[j]
            channels == app_settings.TARGET_CHANNELS \o app_settings.SERVICE_CHANNELS
        IN /\ Len(r.sent) <= Len(channels)
           /\ r.sent = SubSeq(channels, 1, Len(r.sent))
           /\ r.update_called => r.sent = channels
           /\ r.delivery_failed =>
                 /\ Len(r.sent) < Len(channels)
                 /\ ~r.update_called /\ ~r.wrote

\* C35: an exception of the backend in the body step of an attempt is not
\* retried: it is the last answer rewrite_news uses, fewer than max_tries
\* attempts were completed before it, the run ends in an error report with
\* nothing delivered and no state written; a failed title request gives
\* an empty title and the attempt goes on as any other.
C35_BackendFailure ==
    \A j \in DOMAIN publish_job :
        LET r == publish_job[j]
            k == Len(r.answers)
        IN \A i \in 1..k :
             /\ r.answers[i].body = GenError
                  => /\ i = k
                     /\ r.rewrite_status = "Exception"
                     /\ k - 1 < app_settings.MAX_REWRITING_TRIES
                     /\ r.delivered = 0 /\ ~r.update_called /\ ~r.wrote
                     /\ r.session = "none"
                     /\ \/ r.pc = "report_error" /\ r.reports = <<>>
                        \/ r.pc = "close_error" /\ r.reports = <<"Error in publish job">>
                        \/ /\ r.pc = "idle"
                           /\ r.outcome = "error"
                           /\ r.reports = <<"Error in publish job">>
             /\ (r.answers[i].title = GenError /\ r.answers[i].body # GenError)
                  => /\ r.rewrite_status \in {"returned", "RewritedNewsIsTooLongError"}
                     /\ (i = k /\ r.pc \in {"download", "publish", "update", "report_toolong"})
                          => r.news = format_news(r.answers[i].body, <<>>)

\* a run whose second attempt met an exception of the backend has reported
\* the error and is over
C35_Witness ==
    \E j \in DOMAIN publish_job :
        /\ Len(publish_job[j].answers) = 2
        /\ publish_job[j].answers[2].body = GenError
        /\ publish_job[j].pc = "idle"
        /\ publish_job[j].outcome = "error"
        /\ publish_job[j].reports = <<"Error in publish job">>

\* C34: with max_rewriting_tries = 0 no attempt is made and rewrite_news
\* fails with RewritedNewsIsTooLongError, with no other exception type.
C34_ZeroBudget ==
    (rewriter.phase = "done" /\ rewriter.max_rewriting_tries = 0)
        => /\ rewriter.result.status = "RewritedNewsIsTooLongError"
           /\ rewriter.result.attempts = 0

\* C33: whenever a run is outside publish_news_to_channels after having
\* entered it (delivery succeeded, download failed, conversion failed,
\* delivery raised), the temporary download directory does not exist and
\* the poster session is closed.
C33_ScopedResources ==
    \A j \in DOMAIN publish_job :
        LET r == publish_job[j]
        IN (r.session # "none" /\ r.pc \notin {"download", "publish"})
             => /\ r.temp_dir # "exists"
                /\ r.session = "closed"
                /\ r.item.img_link <=> r.temp_dir = "removed"

\* a delivery that raised after the image was downloaded and converted
C33_Witness ==
    \E j \in DOMAIN publish_job :
        /\ publish_job[j].pc = "report_error"
        /\ publish_job[j].delivery_failed
        /\ publish_job[j].image = "prepared"
        /\ publish_job[j].temp_dir = "removed"
        /\ publish_job[j].session = "closed"

\* C32: no feed-reading operation writes or changes the persisted state
\* file: a step of a reader leaves last_published.json as it was.
C32_StateFileOwnership ==
    [][reader' # reader => last_published_file' = last_published_file]_vars

\* C31: a restart leaves an existing state file as it is, and no item
\* delivered before a restart is delivered again after it.
C31_RestartPreservesWatermark ==
    [][\A j \in DOMAIN publish_job :
          /\ (publish_job'[j].published_before # publish_job[j].published_before)
                => last_published_file' = last_published_file
          /\ (publish_job[j].delivered = 0 /\ publish_job'[j].delivered = 1)
                => publish_job[j].item.link \notin publish_job[j].published_before]_vars

(***************************************************************************)
(* Claims about jobs that interleave                                       *)
(***************************************************************************)

\* the value the state file holds for the key of job j, the key lowercased
\* as update_published_dates writes it
stored_for(file, j) ==
    doc_get(load_last_published(file), lower(job_source(j)), lower(job_category(j)))

\* C13: once both jobs have delivered an item and written the state file,
\* the file holds for each of the two keys the watermark its job wrote last.
C13_NoLostUpdates ==
    (\A j \in JobIds : publish_job[j].marked_run > 0) =>
        \A j \in JobIds :
            stored_for(last_published_file, j) = isoformat(publish_job[j].marked)

\* C14: no step lets the value stored for a key decrease: a key that holds
\* a watermark holds one at least as late after every step.
C14_MonotonicWatermark ==
    [][\A j \in JobIds :
          stored_for(last_published_file, j) # Absent =>
              /\ stored_for(last_published_file', j) # Absent
              /\ dt_le(stored_for(last_published_file, j),
                       stored_for(last_published_file', j))]_vars

\* the run of r has failed: at the feed read or before it, at the rewrite,
\* or at the delivery
run_failed(r) ==
    \/ r.delivery_failed
    \/ r.pc \in {"report_error", "report_toolong", "close_error", "close_toolong"}
    \/ (r.pc = "idle" /\ r.outcome \in {"error", "rewrite-failure", "raised"})

\* C25: a step of a job whose run has failed leaves the state file, and so
\* the watermark of every other key, as it was, and leaves the other job's
\* run untouched; a failed run has not called the state write.
C25_Isolation ==
    [][\A a \in JobIds :
          (publish_job'[a] # publish_job[a] /\ run_failed(publish_job'[a])) =>
              /\ last_published_file' = last_published_file
              /\ ~publish_job'[a].update_called
              /\ \A b \in JobIds \ {a} : publish_job'[b] = publish_job[b]]_vars

\* C25 witness: one job's delivery has failed while the other job, which
\* had loaded the state before, has written its watermark and is about to
\* report its success; the file holds that watermark.
C25_Witness ==
    \E a \in JobIds, b \in JobIds :
        /\ a # b
        /\ publish_job[a].pc = "report_error"
        /\ publish_job[a].delivery_failed
        /\ publish_job[b].pc = "report_published"
        /\ publish_job[b].wrote
        /\ publish_job[b].delivered > 0
        /\ stored_for(last_published_file, b) = isoformat(publish_job[b].marked)

(***************************************************************************)
(* Claims about the failure policy of the feed readers                     *)
(***************************************************************************)

\* C18: a call whose fetch failed, or over a feed with an entry whose
\* processing raises, returns an empty result.
C18_FailurePolicy ==
    (/\ reader.phase = "done"
     /\ \/ reader.feed = FetchFailed
        \/ \E i \in 1..Len(reader.feed) :
              entry_raises(reader.source, reader.feed[i], reader.since, reader.now))
        => reader.result = <<>>

(***************************************************************************)
(* Claims about schedule loading                                           *)
(***************************************************************************)

\* the pairs of the schedule whose time string gives a time of day
TimedPairs ==
    {i \in 1..Len(publisher.pairs) :
        LET time == parse_time(publisher.pairs[i].time_str)
        IN time.ok /\ time.hours \in 0..23 /\ time.minutes \in 0..59}

pair_hours(i) == parse_time(publisher.pairs[i].time_str).hours

pair_minutes(i) == parse_time(publisher.pairs[i].time_str).minutes

pair_job_id(i) ==
    job_id_of(publisher.pairs[i].source, publisher.pairs[i].category,
              pair_hours(i), pair_minutes(i))

\* the jobs of the table that run pair i: its source, category and time
JobsOfPair(i) ==
    {n \in 1..Len(sched.jobs) :
        /\ sched.jobs[n].kwargs = [source |-> publisher.pairs[i].source,
                                   category |-> publisher.pairs[i].category]
        /\ sched.jobs[n].hours = pair_hours(i)
        /\ sched.jobs[n].minutes = pair_minutes(i)}

same_triple(i, k) ==
    /\ publisher.pairs[i].source = publisher.pairs[k].source
    /\ publisher.pairs[i].category = publisher.pairs[k].category
    /\ pair_hours(i) = pair_hours(k)
    /\ pair_minutes(i) = pair_minutes(k)

\* C15: once the schedule is loaded, pairs that differ in source, category
\* or time of day have different job ids, and the job table holds exactly
\* one job for every pair with a source of SOURCE_READERS and a time of day.
C15_OneJobPerTriple ==
    publisher.pc = "started" =>
        /\ \A i, k \in TimedPairs : ~same_triple(i, k) => pair_job_id(i) # pair_job_id(k)
        /\ \A i \in TimedPairs :
              publisher.pairs[i].source \in SourceReaderKeys
                  => Cardinality(JobsOfPair(i)) = 1

\* a later pair of the same job id whose add_job raised: schedule_job had
\* removed the job of pair i by then
Unseated(i) ==
    \E k \in (i + 1)..Len(publisher.pairs) :
        /\ k \in TimedPairs
        /\ pair_job_id(k) = pair_job_id(i)
        /\ publisher.pairs[k].log = "Failed to schedule job"

\* C17: once the schedule is loaded, every pair whose time string is
\* malformed or out of range has an error logged and no job of the table
\* comes from it, and every pair with a time of day, before or after such a
\* pair, has a job under its id at its time, unless the scheduling library
\* itself failed on that job id.
C17_PerEntryFaultTolerance ==
    publisher.pc = "started" =>
        /\ \A i \in (1..Len(publisher.pairs)) \ TimedPairs :
              publisher.pairs[i].log = "Invalid time format in schedule"
        /\ \A n \in 1..Len(sched.jobs) :
              \E i \in TimedPairs :
                 /\ sched.jobs[n].id = pair_job_id(i)
                 /\ sched.jobs[n].hours = pair_hours(i)
                 /\ sched.jobs[n].minutes = pair_minutes(i)
        /\ \A i \in TimedPairs :
              /\ publisher.pairs[i].fail = {} => publisher.pairs[i].log = "scheduled"
              /\ (publisher.pairs[i].log = "scheduled" /\ ~Unseated(i))
                   => \E n \in 1..Len(sched.jobs) :
                         /\ sched.jobs[n].id = pair_job_id(i)
                         /\ sched.jobs[n].hours = pair_hours(i)
                         /\ sched.jobs[n].minutes = pair_minutes(i)

\* C17 witness: a schedule of three pairs, the middle one with a time out
\* of range, was loaded; the table holds the jobs of the first and the last.
C17_Witness ==
    /\ publisher.pc = "started"
    /\ Len(publisher.pairs) = 3
    /\ TimedPairs = {1, 3}
    /\ parse_time(publisher.pairs[2].time_str).ok
    /\ Len(sched.jobs) = 2
    /\ sched.jobs[1].id = pair_job_id(1)
    /\ sched.jobs[2].id = pair_job_id(3)
    /\ \A i \in 1..3 : publisher.pairs[i].fail = {}

\* C21: a run that delivered its item and whose write of the state file
\* failed goes on to the success report and ends as a success, with that
\* report its only one.
C21_WriteFailureNotFatal ==
    \A j \in DOMAIN publish_job :
        LET r == publish_job[j]
        IN (r.update_called /\ ~r.wrote /\ r.delivered > 0) =>
              /\ r.pc \in {"report_published", "close_published", "idle"}
              /\ r.pc = "report_published" => r.reports = <<>>
              /\ r.pc \in {"close_published", "idle"} => r.reports = <<"Published">>
              /\ r.pc = "idle" => r.outcome = "success"

\* C21 witness: a run over, the item delivered, the write failed, the
\* success report sent.
C21_Witness ==
    \E j \in DOMAIN publish_job :
        /\ publish_job[j].pc = "idle"
        /\ publish_job[j].update_called
        /\ ~publish_job[j].wrote
        /\ publish_job[j].delivered > 0
        /\ publish_job[j].outcome = "success"

\* C24: once the schedule is loaded, every pair whose source is not a key
\* of SOURCE_READERS has an error logged and no job, and every pair with a
\* known source and a time of day has a job under its id.
C24_UnknownSourceAtLoad ==
    publisher.pc = "started" =>
        /\ \A i \in 1..Len(publisher.pairs) :
              publisher.pairs[i].source \notin SourceReaderKeys
                  => (publisher.pairs[i].log # "scheduled" /\ JobsOfPair(i) = {})
        /\ \A i \in TimedPairs :
              publisher.pairs[i].source \in SourceReaderKeys
                  => pair_job_id(i) \in job_ids(sched.jobs)

====
